---------------------------- MODULE Spec2Model ----------------------------
(***************************************************************************)
(* A model of the optimisation engine and of the density model's replay    *)
(* buffer of the intrusion-detection backend:                               *)
(*   backend/app/ml/crow_search.py            CrowSearchOptimizer           *)
(*   backend/app/ml/enhanced_csa_optimizer.py EnhancedCSAOptimizer          *)
(*   backend/app/ml/sgm_analyzer.py           SGMNetworkAnalyzer            *)
(*                                                                         *)
(* Numbers.  Scores, positions and fitness are reals in the program.  The  *)
(* model keeps them exact on finite grids:                                 *)
(*   - an objective score s stands for s / ScoreMax (0 .. 1.0);            *)
(*   - a position coordinate v stands for v / Res;                         *)
(*   - a fitness is the exact rational num / den, and -inf is NegInf;      *)
(*   - a draw of np.random.random() is r / RandomDen for r in RandomDraws. *)
(***************************************************************************)
EXTENDS Integers, Sequences, FiniteSets, TLC

VARIABLES
    \* ---- EnhancedCSAOptimizer / CrowSearchOptimizer (self.*) ----
    pc,                    \* position of the coordinator in optimize_multi_objective
    parallel_evaluation,   \* self.parallel_evaluation and self.executor
    iteration,             \* loop variable of the main optimisation loop
    population,            \* self.population
    fitness_values,        \* self.fitness_values
    memory_positions,      \* self.memory_positions
    memory_fitness,        \* self.memory_fitness
    best_position,         \* self.best_position (None until a finite fitness is seen)
    best_fitness,          \* self.best_fitness
    pareto_front,          \* self.pareto_front
    convergence_history,   \* self.convergence_history
    awareness_probability, \* self.awareness_probability
    flight_length,         \* self.flight_length
    futures,               \* the futures list of the current iteration
    abandoned,             \* work items of the executor whose future timed out
    collect_idx,           \* index of the candidate the evaluation loop is at
    last,                  \* what the evaluation loop obtained for its last candidate
    measured,              \* whether some evaluation of the run ran without raising
    timed_out,             \* whether the run has logged an evaluation timeout
    result,                \* the OptimizationResult returned (None before)
    objectives,            \* self.objectives
    adaptive_parameters,   \* self.adaptive_parameters
    initial_awareness_probability, \* self.initial_awareness_probability
    initial_flight_length, \* self.initial_flight_length
    max_iterations,        \* self.max_iterations
    seed,                  \* the draws np.random makes once seeded (None: unseeded)
    evaluator,             \* what a deterministic evaluator reports for each
                           \* parameter set (None: any outcome at each call)
    evaluated,             \* the candidates evaluated one by one, with their fitness
    runs,                  \* calls of the optimizer begun on this instance
    reference,             \* trajectory and result of an earlier run to compare with
    trajectory,            \* populations the seeded run went through, in order
    follow,                \* _update_population: the crows picked, the pick at hand
    scorers,               \* the predict_anomaly calls in progress, one per thread
    \* ---- SGMNetworkAnalyzer (self.*) ----
    is_fitted,             \* self.is_fitted
    window_size,           \* self.window_size
    calculated_threshold,  \* self.calculated_threshold
    adaptation_buffer,     \* self.adaptation_buffer
    scored,                \* number of rows scored so far (stamps the entries)
    gmm_model,             \* self.gmm_model (None before the first fit)
    scaler,                \* self.scaler and self.pca: the fit call that fitted them
    baseline_statistics,   \* self.baseline_statistics and self.feature_importance
    last_update,           \* self.last_update: 0 for None, then the stamps in order
    fits,                  \* number of fit calls made (names the training sets)
    returned               \* what the last call on the analyzer returned or raised

optVars == << pc, parallel_evaluation, iteration, population, fitness_values,
              memory_positions, memory_fitness, best_position, best_fitness,
              pareto_front, convergence_history, awareness_probability,
              flight_length, futures, abandoned, collect_idx, last, measured,
              timed_out, result >>

\* what is set at construction or by the caller and never changes afterwards
cfgVars == << objectives, adaptive_parameters, initial_awareness_probability,
              initial_flight_length, max_iterations, seed, evaluator >>

\* bookkeeping of the calls made
auxVars == << evaluated, runs, reference, trajectory, follow, scorers >>

sgmVars == << is_fitted, window_size, calculated_threshold, adaptation_buffer,
              scored, gmm_model, scaler, baseline_statistics, last_update, fits,
              returned >>

vars == << optVars, cfgVars, auxVars, sgmVars >>

---------------------------------------------------------------------------
(* Bounds of the model *)

\* population_size of the runs explored
PopulationSize == 2

\* max_iterations of the runs explored
MaxIterations == 2

\* a score of ScoreMax stands for 1.0
ScoreMax == 1

\* members a Pareto front grows to from the empty front
MaxFrontLen == 5

\* largest window_size explored
MaxWindow == 11

\* largest batch handed to one predict_anomaly call
MaxBatch == 3

\* rows scored in one behaviour of the replay buffer
MaxScored == 11

\* n_components of the analyzers explored
NComponents == 2

\* fit calls in one behaviour of an analyzer
MaxFits == 2

\* blends of the mixture parameters in one behaviour of an analyzer
MaxBlends == 1

\* candidates evaluated one by one in a behaviour of the fitness aggregator
MaxEvaluated == 3

\* calls of optimize_multi_objective made on one optimizer instance
MaxRuns == 2

\* the largest population_size whose move step is followed statement by
\* statement
MaxPopulation == 3

\* max_iterations of the runs that submit more work items than the executor
\* has workers
LongRun == 3

\* scores and calibrated thresholds of the severity grading lie in
\* -MaxGrade .. MaxGrade
MaxGrade == 3

\* a position coordinate v stands for v / Res
Res == 2

\* a draw r of np.random.random() stands for r / RandomDen
RandomDen == 4

---------------------------------------------------------------------------
(* Program constants *)

\* the draws of np.random.random() explored: 0.0 and the largest one below 1.0
RandomDraws == { 0, RandomDen - 1 }

\* ThreadPoolExecutor(max_workers=4)
MaxWorkers == 4

\* if len(self.pareto_front) > 50
ParetoCap == 50

\* float('-inf'): below every rational under Gt
NegInf == [num |-> -1, den |-> 0]

\* Python's None where a tuple or a list is expected
None == << >>

Min(a, b) == IF a < b THEN a ELSE b

Max(a, b) == IF a > b THEN a ELSE b

RECURSIVE GCD(_, _)
GCD(a, b) == IF b = 0 THEN a ELSE GCD(b, a % b)

\* the float num / den (den > 0, num >= 0), in lowest terms
Rat(num, den) ==
    LET g == GCD(num, den)
    IN  [num |-> num \div g, den |-> den \div g]

\* settings.CSA_AWARENESS_PROBABILITY = 0.1
InitialAwareness == Rat(1, 10)

\* settings.CSA_FLIGHT_LENGTH = 2.0
InitialFlightLength == Rat(2, 1)

\* a > b on floats, -inf included
Gt(a, b) == a.num * b.den > b.num * a.den

Ge(a, b) == ~Gt(b, a)

---------------------------------------------------------------------------
(* Objectives (self.objectives) *)

\* a run's ordered objective list: one classifier metric to maximise and one
\* density metric to minimise
Objectives ==
    << [name |-> "accuracy", weight |-> 2, minimize |-> FALSE, target_range |-> None ],
       [name |-> "sgm_detection_rate", weight |-> 1, minimize |-> TRUE,
        target_range |-> None ] >>

ObjNames == { objectives[k].name : k \in DOMAIN objectives }

\* the metric the classifier evaluator reports / the density evaluator reports
MLNames == { "accuracy" }

SGMNames == { "sgm_detection_rate" }

\* score dictionaries that carry every configured objective
ScoreVectors == [ObjNames -> 0..ScoreMax]

\* {obj.name: 0.0 for obj in self.objectives}
ZeroScores == [n \in ObjNames |-> 0]

\* the adjusted score of one objective as a fraction <<num, den>>
AdjustedScore(objective, s) ==
    LET s1 == IF objective.minimize THEN ScoreMax - s ELSE s
    IN  IF objective.target_range = None
        THEN << s1, ScoreMax >>
        ELSE LET lo == objective.target_range[1]
                 hi == objective.target_range[2]
             IN  << Max(0, Min(hi - lo, s1 - lo)), hi - lo >>

\* total_fitness and total_weight over objectives k..n, as <<num, den, weight>>
RECURSIVE WeightedSum(_, _)
WeightedSum(objective_scores, k) ==
    IF k > Len(objectives) THEN << 0, 1, 0 >>
    ELSE LET rest == WeightedSum(objective_scores, k + 1)
             o    == objectives[k]
         IN  IF o.name \in DOMAIN objective_scores
             THEN LET a == AdjustedScore(o, objective_scores[o.name])
                  IN  << rest[1] * a[2] + o.weight * a[1] * rest[2],
                         rest[2] * a[2],
                         rest[3] + o.weight >>
             ELSE rest

CalculateWeightedFitness(objective_scores) ==
    LET t == WeightedSum(objective_scores, 1)
    IN  IF t[3] > 0 THEN Rat(t[1], t[2] * t[3]) ELSE Rat(0, 1)

---------------------------------------------------------------------------
(* Pareto front *)

\* _dominates, objectives k..n: <<no objective is worse, some is better>>
RECURSIVE DominatesFrom(_, _, _)
DominatesFrom(scores1, scores2, k) ==
    IF k > Len(objectives) THEN << TRUE, FALSE >>
    ELSE LET rest == DominatesFrom(scores1, scores2, k + 1)
             o    == objectives[k]
         IN  IF o.name \in DOMAIN scores1 /\ o.name \in DOMAIN scores2
             THEN LET s1 == scores1[o.name]
                      s2 == scores2[o.name]
                      worse  == IF o.minimize THEN s1 > s2 ELSE s1 < s2
                      better == IF o.minimize THEN s1 < s2 ELSE s1 > s2
                  IN  << rest[1] /\ ~worse, rest[2] \/ better >>
             ELSE rest

\* a dominance that does not ask for a strictly better objective
DominatesNotWorse(scores1, scores2) ==
    LET d == DominatesFrom(scores1, scores2, 1)
    IN  d[1]

Dominates(scores1, scores2) ==
    LET d == DominatesFrom(scores1, scores2, 1)
    IN  d[1] /\ d[2]

\* the scan of the front: is_dominated is set at the first member that the
\* new solution does not dominate and that dominates it
IsDominated(front, objective_scores) ==
    \E k \in DOMAIN front :
        /\ ~Dominates(objective_scores, front[k].objectives)
        /\ Dominates(front[k].objectives, objective_scores)

\* the front once the members of dominated_indices are popped
WithoutDominated(front, objective_scores) ==
    SelectSeq(front, LAMBDA member : ~Dominates(objective_scores, member.objectives))

\* a front that is cut to its capacity in the order of insertion
SortByFitnessNever(front) ==
    front

\* list.sort(key=fitness, reverse=True): stable, highest fitness first.
\* rank[k] is the place member k is moved to.
SortByFitness(front) ==
    LET rank == [k \in DOMAIN front |->
                    1 + Cardinality({ j \in DOMAIN front :
                                        \/ Gt(front[j].fitness, front[k].fitness)
                                        \/ (j < k /\ ~Gt(front[k].fitness, front[j].fitness)) })]
    IN  [r \in DOMAIN front |-> front[CHOOSE k \in DOMAIN front : rank[k] = r]]

\* seq[:n]
Take(seq, n) == SubSeq(seq, 1, Min(n, Len(seq)))

\* _update_pareto_front that forgets to remove the members the new solution
\* dominates
UpdateParetoFrontKeepsDominated(front, params, objective_scores, fitness) ==
    LET solution == [parameters |-> params, objectives |-> objective_scores,
                     fitness |-> fitness]
    IN  IF IsDominated(front, objective_scores) THEN front
        ELSE LET added == Append(front, solution)
             IN  IF Len(added) > ParetoCap
                 THEN Take(SortByFitness(added), ParetoCap)
                 ELSE added

UpdateParetoFront(front, params, objective_scores, fitness) ==
    LET solution == [parameters |-> params, objectives |-> objective_scores,
                     fitness |-> fitness]
    IN  IF IsDominated(front, objective_scores) THEN front
        ELSE LET added == Append(WithoutDominated(front, objective_scores), solution)
             IN  IF Len(added) > ParetoCap
                 THEN Take(SortByFitness(added), ParetoCap)
                 ELSE added

---------------------------------------------------------------------------
(* Bounded parameter space (self.parameter_bounds) *)

\* The axes of the runs explored, (min, max) in position units: one axis of
\* the integer kind, whose decoded value is rounded.  A continuous axis is
\* decoded as it is (integer |-> FALSE).
ParameterBounds ==
    << [name |-> "sgm_n_components", min |-> 2 * Res, max |-> 3 * Res,
        integer |-> TRUE] >>

Axes == DOMAIN ParameterBounds

Crows == 1..PopulationSize

\* np.random.random() * (max_val - min_val) + min_val, for the draw r / RandomDen
ScaleToBounds(r, a) ==
    ParameterBounds[a].min
        + (r * (ParameterBounds[a].max - ParameterBounds[a].min)) \div RandomDen

\* _generate_random_position: one draw per axis
RandomPositions ==
    { [a \in Axes |-> ScaleToBounds(draw[a], a)] : draw \in [Axes -> RandomDraws] }

\* np.clip(value, min_val, max_val)
Clip(v, lo, hi) == IF v < lo THEN lo ELSE IF v > hi THEN hi ELSE v

\* _apply_bounds that clips to max_val only
ApplyBoundsUpperOnly(position) ==
    [a \in Axes |-> Min(position[a], ParameterBounds[a].max)]

ApplyBounds(position) ==
    [a \in Axes |-> Clip(position[a], ParameterBounds[a].min, ParameterBounds[a].max)]

\* int(round(value)) of the coordinate v / Res: round half to even; in position units
RoundHalfEven(v) ==
    LET q == v \div Res
        r == v % Res
    IN  Res * (IF 2 * r < Res THEN q
               ELSE IF 2 * r > Res THEN q + 1
               ELSE IF q % 2 = 0 THEN q ELSE q + 1)

\* _position_to_params (enhanced version): a dict from parameter name to value
PositionToParams(position) ==
    [n \in { ParameterBounds[a].name : a \in Axes } |->
        LET a == CHOOSE b \in Axes : ParameterBounds[b].name = n
        IN  IF ParameterBounds[a].integer THEN RoundHalfEven(position[a])
            ELSE position[a]]

\* population[i] + r_fl * flight_length * (memory_positions[j] - population[i]),
\* to the grid
FlyToward(position, memory, r_fl, fl) ==
    [a \in Axes |->
        position[a]
            + (r_fl * fl.num * (memory[a] - position[a])) \div (RandomDen * fl.den)]

\* the draws _update_population makes for crow i: the crow j to follow (the
\* first np.random.randint that is not i), r, and the draws u that follow,
\* of which the first is r_fl if crow j is not aware and which are the
\* coordinates of _generate_random_position if it is
CrowDraws(i) == [j : Crows \ {i}, r : RandomDraws, u : [Axes -> RandomDraws]]

\* the bounded position of crow i for the draws d
MoveWith(i, d, pop, mem, ap, fl) ==
    ApplyBounds(IF d.r * ap.den >= ap.num * RandomDen
                THEN FlyToward(pop[i], mem[d.j], d.u[1], fl)
                ELSE [a \in Axes |-> ScaleToBounds(d.u[a], a)])

\* the positions one crow can take in _update_population
MoveTargets(i, pop, mem, ap, fl) ==
    { MoveWith(i, d, pop, mem, ap, fl) : d \in CrowDraws(i) }

\* the populations _update_population can produce: every crow moves, each
\* with its own draws
MovedPopulations(pop, mem, ap, fl) ==
    { new_population \in
          [Crows -> UNION { MoveTargets(i, pop, mem, ap, fl) : i \in Crows }] :
        \A i \in Crows : new_population[i] \in MoveTargets(i, pop, mem, ap, fl) }

\* np.random.seed(s) by the caller before a run fixes the draws of the run:
\* those of _initialize_population and those of each _update_population
Seeds ==
    [init : [Crows -> [Axes -> RandomDraws]],
     moves : { m \in [Crows -> UNION { CrowDraws(i) : i \in Crows }] :
                 \A i \in Crows : m[i].j # i }]

\* the populations _initialize_population can produce
InitialPopulations ==
    IF seed = None THEN [Crows -> RandomPositions]
    ELSE { [i \in Crows |-> [a \in Axes |-> ScaleToBounds(seed.init[i][a], a)]] }

\* a move that draws anew whatever the seed
NextPopulationsUnseeded(pop, mem, ap, fl) ==
    MovedPopulations(pop, mem, ap, fl)

\* the populations _update_population can produce in this run
NextPopulations(pop, mem, ap, fl) ==
    IF seed = None THEN MovedPopulations(pop, mem, ap, fl)
    ELSE { [i \in Crows |-> MoveWith(i, seed.moves[i], pop, mem, ap, fl)] }

\* an awareness schedule without its floor
AdaptedAwarenessNoFloor(k) ==
    Rat(initial_awareness_probability.num * (2 * max_iterations - k),
        initial_awareness_probability.den * 2 * max_iterations)

\* _adapt_csa_parameters(iteration), with progress = iteration / max_iterations
AdaptedAwareness(k) ==
    LET a == Rat(initial_awareness_probability.num * (2 * max_iterations - k),
                 initial_awareness_probability.den * 2 * max_iterations)
    IN  IF Gt(Rat(1, 20), a) THEN Rat(1, 20) ELSE a

AdaptedFlightLength(k) ==
    LET f == Rat(initial_flight_length.num * (10 * max_iterations - 3 * k),
                 initial_flight_length.den * 10 * max_iterations)
    IN  IF Gt(Rat(1, 1), f) THEN Rat(1, 1) ELSE f

---------------------------------------------------------------------------
(* Evaluation units *)

\* What _evaluate_multi_objective returns.  Each evaluator either measures its
\* metric or raises; _evaluate_ml_objectives and _evaluate_sgm_objectives
\* catch the error themselves and report 0.0 for their metrics.  raised tells
\* whether one of them did.
EvalOutcomes ==
    { [scores |-> [n \in ObjNames |-> IF n \in MLNames THEN t[1] ELSE t[3]],
       raised |-> (t[2] \/ t[4])] :
        t \in { u \in (0..ScoreMax) \X BOOLEAN \X (0..ScoreMax) \X BOOLEAN :
                  (u[2] => u[1] = 0) /\ (u[4] => u[3] = 0) } }

\* the parameter sets a position can decode to
AllParams ==
    { PositionToParams(position) :
        position \in [Axes -> UNION { ParameterBounds[a].min..ParameterBounds[a].max :
                                        a \in Axes }] }

\* the deterministic evaluators: the outcome is a function of the parameters
Evaluators ==
    { [by |-> "params", outcome |-> f] : f \in [AllParams -> EvalOutcomes] }

\* the evaluations of a run in the order of the loops: pass k of the main
\* loop and candidate i; row MaxIterations is the evaluation of the best
\* solution after the loop
Calls == (0..MaxIterations) \X Crows

\* evaluations that measure (nothing raises); the one after the loop reports
\* zeros
CallOutcomes ==
    { f \in [Calls -> { o \in EvalOutcomes : ~o.raised }] :
        \A i \in Crows : f[<< MaxIterations, i >>].scores = ZeroScores }

\* evaluators whose outcome is fixed per evaluation of the run, whatever the
\* mode the run is made in
Schedules == { [by |-> "call", outcome |-> f] : f \in CallOutcomes }

\* what evaluate_solution can return for candidate i at a position
OutcomesOf(i, position) ==
    IF evaluator = None THEN EvalOutcomes
    ELSE IF evaluator.by = "params"
    THEN { evaluator.outcome[PositionToParams(position)] }
    ELSE { evaluator.outcome[<< iteration, i >>] }

\* what evaluate_solution can return for the candidate at a position
Outcomes(position) ==
    OutcomesOf(collect_idx, position)

\* the loop's locals before its first pass
NoLast == [i |-> 0, kind |-> "none", raised |-> FALSE, scores |-> None]

\* a work item a worker has taken either returns one day or never does
Fates == { "running", "hung" }

\* the workers of the pool that are executing a work item
BusyWorkers(fut, ab) ==
    Cardinality({ i \in Crows : fut[i] \in Fates }) + ab.running + ab.hung

\* work items submitted and not finished
Unfinished ==
    Cardinality({ i \in Crows : futures[i] \in Fates \cup {"pending"} })
        + abandoned.pending + abandoned.running + abandoned.hung

\* a worker that became free takes the oldest queued work item: the ones
\* whose future timed out were submitted before the queued ones of this
\* iteration.  The set of the <<futures, abandoned>> that can follow.
StartNext(fut, ab) ==
    IF ab.pending > 0
    THEN { << fut, [ab EXCEPT !.pending = @ - 1, ![s] = @ + 1] >> : s \in Fates }
    ELSE IF \E i \in Crows : fut[i] = "pending"
         THEN LET i == CHOOSE k \in Crows :
                          /\ fut[k] = "pending"
                          /\ \A j \in Crows : fut[j] = "pending" => k <= j
              IN  { << [fut EXCEPT ![i] = s], ab >> : s \in Fates }
         ELSE { << fut, ab >> }

\* np.argmax(self.fitness_values): the first index of the maximum
ArgMax(values) ==
    CHOOSE i \in Crows :
        /\ \A j \in Crows : Ge(values[i], values[j])
        /\ \A j \in Crows : j < i => Gt(values[i], values[j])

---------------------------------------------------------------------------
(* optimize_multi_objective *)

\* _update_population not entered
NoFollow ==
    [pc |-> "idle", size |-> 0, i |-> 0, j |-> 0, picked |-> << >>,
     new_population |-> << >>]

\* the bookkeeping before any call
InitCalls ==
    /\ evaluated = << >>
    /\ runs = 0
    /\ reference = None
    /\ trajectory = << >>
    /\ follow = NoFollow
    /\ scorers = << >>

\* EnhancedCSAOptimizer() with the settings' awareness probability and flight
\* length, adaptive_parameters=True, np.random not seeded by the caller, and
\* evaluators that may report anything at each call
DefaultConfig ==
    /\ adaptive_parameters = TRUE
    /\ initial_awareness_probability = InitialAwareness
    /\ initial_flight_length = InitialFlightLength
    /\ max_iterations = MaxIterations
    /\ seed = None
    /\ evaluator = None

\* the state after EnhancedCSAOptimizer.__init__, the Pareto front apart
InitSearch ==
    /\ InitCalls
    /\ pc = "idle"
    /\ iteration = 0
    /\ population = None
    /\ fitness_values = None
    /\ memory_positions = None
    /\ memory_fitness = None
    /\ best_position = None
    /\ best_fitness = NegInf
    /\ convergence_history = << >>
    /\ awareness_probability = initial_awareness_probability
    /\ flight_length = initial_flight_length
    /\ futures = [i \in Crows |-> "none"]
    /\ abandoned = [pending |-> 0, running |-> 0, hung |-> 0]
    /\ collect_idx = 0
    /\ last = NoLast
    /\ measured = FALSE
    /\ timed_out = FALSE
    /\ result = None

\* the state after EnhancedCSAOptimizer.__init__
InitOptimizer ==
    /\ objectives = Objectives
    /\ DefaultConfig
    /\ InitSearch
    /\ pareto_front = << >>

\* _initialize_population and the entry of the main loop: the arrays of the
\* population are made anew, the locals of the call are fresh, and the other
\* attributes of the optimizer stay as they are
BeginRun ==
    /\ \E pop \in InitialPopulations :
          /\ population' = pop
          /\ memory_positions' = pop
          /\ trajectory' = IF seed = None THEN trajectory ELSE << pop >>
    /\ fitness_values' = [i \in Crows |-> NegInf]
    /\ memory_fitness' = [i \in Crows |-> NegInf]
    /\ iteration' = 0
    /\ collect_idx' = 1
    /\ futures' = [i \in Crows |-> "none"]
    /\ last' = NoLast
    /\ measured' = FALSE
    /\ timed_out' = FALSE
    /\ result' = None
    /\ runs' = runs + 1
    /\ pc' = "evaluate"
    /\ UNCHANGED << parallel_evaluation, best_position, best_fitness, pareto_front,
                    convergence_history, awareness_probability, flight_length,
                    abandoned >>
    /\ UNCHANGED << cfgVars, evaluated, reference, follow, scorers, sgmVars >>

\* the first call of optimize_multi_objective on the instance
StartRun ==
    /\ pc = "idle"
    /\ BeginRun

\* a further call on the same instance, once the one before has returned or
\* raised
StartAgain ==
    /\ pc \in {"done", "failed"}
    /\ runs < MaxRuns
    /\ BeginRun

\* parallel mode in a further call: the executor was shut down at the end of
\* the call before; executor.submit raises RuntimeError, which the call
\* re-raises after the finally clause
SubmitRaises ==
    /\ pc = "evaluate"
    /\ parallel_evaluation
    /\ runs > 1
    /\ pc' = "failed"
    /\ UNCHANGED << parallel_evaluation, iteration, population, fitness_values,
                    memory_positions, memory_fitness, best_position, best_fitness,
                    pareto_front, convergence_history, awareness_probability,
                    flight_length, futures, abandoned, collect_idx, last, measured,
                    timed_out, result >>
    /\ UNCHANGED << cfgVars, auxVars, sgmVars >>

\* parallel mode: one executor.submit per candidate; the idle workers take
\* the first work items, the others queue
Submit ==
    /\ pc = "evaluate"
    /\ parallel_evaluation
    /\ runs <= 1
    /\ LET idle == MaxWorkers - BusyWorkers([i \in Crows |-> "none"], abandoned)
       IN  futures' \in
             { fut \in [Crows -> Fates \cup {"pending"}] :
                 \A i \in Crows : (fut[i] = "pending") <=> (i > idle) }
    /\ collect_idx' = 1
    /\ pc' = "collect"
    /\ UNCHANGED << parallel_evaluation, iteration, population, fitness_values,
                    memory_positions, memory_fitness, best_position, best_fitness,
                    pareto_front, convergence_history, awareness_probability,
                    flight_length, abandoned, last, measured, timed_out, result >>
    /\ UNCHANGED << cfgVars, auxVars, sgmVars >>

\* an evaluation unit that stores its fitness itself, from its worker
\* a work item that fits the analyzer passed to the run instead of a
\* temporary one
UnitFinishFitsReference(i) ==
    /\ futures[i] = "running"
    /\ \E next \in StartNext([futures EXCEPT ![i] = "done"], abandoned) :
          /\ futures' = next[1]
          /\ abandoned' = next[2]
    /\ is_fitted' = TRUE
    /\ calculated_threshold' = 1
    /\ UNCHANGED << pc, parallel_evaluation, iteration, population, fitness_values,
                    memory_positions, memory_fitness, best_position, best_fitness,
                    pareto_front, convergence_history, awareness_probability,
                    flight_length, collect_idx, last, measured, timed_out, result >>
    /\ UNCHANGED << window_size, adaptation_buffer, scored, gmm_model, scaler,
                    baseline_statistics, last_update, fits, returned >>
    /\ UNCHANGED << cfgVars, auxVars >>

UnitFinishWritesFitness(i) ==
    /\ futures[i] = "running"
    /\ \E next \in StartNext([futures EXCEPT ![i] = "done"], abandoned) :
          /\ futures' = next[1]
          /\ abandoned' = next[2]
    /\ \E o \in EvalOutcomes :
          fitness_values' = [fitness_values EXCEPT ![i] = CalculateWeightedFitness(o.scores)]
    /\ UNCHANGED << pc, parallel_evaluation, iteration, population,
                    memory_positions, memory_fitness, best_position, best_fitness,
                    pareto_front, convergence_history, awareness_probability,
                    flight_length, collect_idx, last, measured, timed_out, result >>
    /\ UNCHANGED << cfgVars, auxVars, sgmVars >>

\* evaluate_solution returns in its worker; the future holds what it
\* returned until the coordinator reads it
UnitFinish(i) ==
    /\ futures[i] = "running"
    /\ \E next \in StartNext([futures EXCEPT ![i] = "done"], abandoned) :
          /\ futures' = next[1]
          /\ abandoned' = next[2]
    /\ UNCHANGED << pc, parallel_evaluation, iteration, population, fitness_values,
                    memory_positions, memory_fitness, best_position, best_fitness,
                    pareto_front, convergence_history, awareness_probability,
                    flight_length, collect_idx, last, measured, timed_out, result >>
    /\ UNCHANGED << cfgVars, auxVars, sgmVars >>

\* a late result that is stored as the fitness of a candidate
AbandonedFinishStored ==
    /\ abandoned.running > 0
    /\ \E next \in StartNext(futures, [abandoned EXCEPT !.running = @ - 1]) :
          /\ futures' = next[1]
          /\ abandoned' = next[2]
    /\ \E i \in Crows, o \in EvalOutcomes :
          fitness_values' =
              [fitness_values EXCEPT ![i] = CalculateWeightedFitness(o.scores)]
    /\ UNCHANGED << pc, parallel_evaluation, iteration, population,
                    memory_positions, memory_fitness, best_position, best_fitness,
                    pareto_front, convergence_history, awareness_probability,
                    flight_length, collect_idx, last, measured, timed_out, result >>
    /\ UNCHANGED << cfgVars, auxVars, sgmVars >>

\* a work item whose future timed out returns; nobody reads its result
AbandonedFinish ==
    /\ abandoned.running > 0
    /\ \E next \in StartNext(futures, [abandoned EXCEPT !.running = @ - 1]) :
          /\ futures' = next[1]
          /\ abandoned' = next[2]
    /\ UNCHANGED << pc, parallel_evaluation, iteration, population, fitness_values,
                    memory_positions, memory_fitness, best_position, best_fitness,
                    pareto_front, convergence_history, awareness_probability,
                    flight_length, collect_idx, last, measured, timed_out, result >>
    /\ UNCHANGED << cfgVars, auxVars, sgmVars >>

\* a memory that is also replaced by an evaluation that merely equals it
AbsorbNotWorse(i, objective_scores) ==
    LET fitness == CalculateWeightedFitness(objective_scores)
    IN  /\ fitness_values' = [fitness_values EXCEPT ![i] = fitness]
        /\ IF Ge(fitness, memory_fitness[i])
           THEN /\ memory_positions' = [memory_positions EXCEPT ![i] = population[i]]
                /\ memory_fitness' = [memory_fitness EXCEPT ![i] = fitness]
                /\ pareto_front' = UpdateParetoFront(pareto_front,
                                        PositionToParams(population[i]),
                                        objective_scores, fitness)
           ELSE UNCHANGED << memory_positions, memory_fitness, pareto_front >>

\* the body of both evaluation loops once objective_scores is there
Absorb(i, objective_scores) ==
    LET fitness == CalculateWeightedFitness(objective_scores)
    IN  /\ fitness_values' = [fitness_values EXCEPT ![i] = fitness]
        /\ IF Gt(fitness, memory_fitness[i])
           THEN /\ memory_positions' = [memory_positions EXCEPT ![i] = population[i]]
                /\ memory_fitness' = [memory_fitness EXCEPT ![i] = fitness]
                /\ pareto_front' = UpdateParetoFront(pareto_front,
                                        PositionToParams(population[i]),
                                        objective_scores, fitness)
           ELSE UNCHANGED << memory_positions, memory_fitness, pareto_front >>

\* a collection loop that takes the futures as they complete
CollectResultAsCompleted ==
    /\ pc = "collect"
    /\ collect_idx \in Crows
    /\ \E i \in Crows :
          /\ futures[i] = "done"
          /\ futures' = [futures EXCEPT ![i] = "collected"]
          /\ \E o \in OutcomesOf(i, population[i]) :
                /\ Absorb(i, o.scores)
                /\ last' = [i |-> i, kind |-> "result", raised |-> o.raised,
                            scores |-> o.scores]
                /\ measured' = (measured \/ ~o.raised)
    /\ collect_idx' = collect_idx + 1
    /\ UNCHANGED << pc, parallel_evaluation, iteration, population, best_position,
                    best_fitness, convergence_history, awareness_probability,
                    flight_length, abandoned, timed_out, result >>
    /\ UNCHANGED << cfgVars, auxVars, sgmVars >>

\* parallel mode: future.result(timeout=300) returns the scores
CollectResult ==
    /\ pc = "collect"
    /\ collect_idx \in Crows
    /\ futures[collect_idx] = "done"
    /\ \E o \in Outcomes(population[collect_idx]) :
          /\ Absorb(collect_idx, o.scores)
          /\ last' = [i |-> collect_idx, kind |-> "result", raised |-> o.raised,
                      scores |-> o.scores]
          /\ measured' = (measured \/ ~o.raised)
    /\ futures' = [futures EXCEPT ![collect_idx] = "collected"]
    /\ collect_idx' = collect_idx + 1
    /\ UNCHANGED << pc, parallel_evaluation, iteration, population, best_position,
                    best_fitness, convergence_history, awareness_probability,
                    flight_length, abandoned, timed_out, result >>
    /\ UNCHANGED << cfgVars, auxVars, sgmVars >>

\* a timeout handler that leaves the candidate's fitness of the iteration
\* before in place
CollectTimeoutKeepsFitness ==
    /\ pc = "collect"
    /\ collect_idx \in Crows
    /\ futures[collect_idx] \in Fates \cup {"pending"}
    /\ abandoned' = [abandoned EXCEPT ![futures[collect_idx]] = @ + 1]
    /\ futures' = [futures EXCEPT ![collect_idx] = "collected"]
    /\ last' = [NoLast EXCEPT !.i = collect_idx, !.kind = "timeout"]
    /\ timed_out' = TRUE
    /\ collect_idx' = collect_idx + 1
    /\ UNCHANGED << pc, parallel_evaluation, iteration, population, fitness_values,
                    memory_positions, memory_fitness, best_position, best_fitness,
                    pareto_front, convergence_history, awareness_probability,
                    flight_length, measured, result >>
    /\ UNCHANGED << cfgVars, auxVars, sgmVars >>

\* parallel mode: future.result(timeout=300) raises TimeoutError; the work
\* item stays with the executor
CollectTimeout ==
    /\ pc = "collect"
    /\ collect_idx \in Crows
    /\ futures[collect_idx] \in Fates \cup {"pending"}
    /\ fitness_values' = [fitness_values EXCEPT ![collect_idx] = NegInf]
    /\ abandoned' = [abandoned EXCEPT ![futures[collect_idx]] = @ + 1]
    /\ futures' = [futures EXCEPT ![collect_idx] = "collected"]
    /\ last' = [NoLast EXCEPT !.i = collect_idx, !.kind = "timeout"]
    /\ timed_out' = TRUE
    /\ collect_idx' = collect_idx + 1
    /\ UNCHANGED << pc, parallel_evaluation, iteration, population, memory_positions,
                    memory_fitness, best_position, best_fitness, pareto_front,
                    convergence_history, awareness_probability, flight_length,
                    measured, result >>
    /\ UNCHANGED << cfgVars, auxVars, sgmVars >>

\* sequential mode: one pass of the loop body
SequentialEvaluate ==
    /\ pc = "evaluate"
    /\ ~parallel_evaluation
    /\ collect_idx \in Crows
    /\ \E o \in Outcomes(population[collect_idx]) :
          /\ Absorb(collect_idx, o.scores)
          /\ last' = [i |-> collect_idx, kind |-> "result", raised |-> o.raised,
                      scores |-> o.scores]
          /\ measured' = (measured \/ ~o.raised)
    /\ collect_idx' = collect_idx + 1
    /\ UNCHANGED << pc, parallel_evaluation, iteration, population, best_position,
                    best_fitness, convergence_history, awareness_probability,
                    flight_length, futures, abandoned, timed_out, result >>
    /\ UNCHANGED << cfgVars, auxVars, sgmVars >>

\* a global best that takes the best of the iteration whatever it is
UpdateGlobalBestAlways(values, fit, pos, pop) ==
    << values[ArgMax(values)], pop[ArgMax(values)] >>

\* the global best after the evaluation loop: <<best_fitness, best_position>>
UpdateGlobalBest(values, fit, pos, pop) ==
    LET best_idx == ArgMax(values)
    IN  IF Gt(values[best_idx], fit)
        THEN << values[best_idx], pop[best_idx] >>
        ELSE << fit, pos >>

\* the rest of an iteration: global best, _update_population,
\* _adapt_csa_parameters if adaptive_parameters is on, convergence record
FinishIteration ==
    /\ pc \in {"evaluate", "collect"}
    /\ collect_idx = PopulationSize + 1
    /\ LET best == UpdateGlobalBest(fitness_values, best_fitness, best_position,
                                    population)
       IN  /\ best_fitness' = best[1]
           /\ best_position' = best[2]
           /\ convergence_history' =
                  Append(convergence_history,
                         [iteration |-> iteration + 1, best_fitness |-> best[1],
                          pareto_size |-> Len(pareto_front)])
    /\ population' \in NextPopulations(population, memory_positions,
                                        awareness_probability, flight_length)
    /\ trajectory' = IF seed = None THEN trajectory ELSE Append(trajectory, population')
    /\ IF adaptive_parameters
       THEN /\ awareness_probability' = AdaptedAwareness(iteration)
            /\ flight_length' = AdaptedFlightLength(iteration)
       ELSE UNCHANGED << awareness_probability, flight_length >>
    /\ iteration' = iteration + 1
    /\ collect_idx' = 1
    /\ last' = NoLast
    /\ pc' = IF iteration + 1 < max_iterations THEN "evaluate" ELSE "finalize"
    /\ UNCHANGED << parallel_evaluation, fitness_values, memory_positions,
                    memory_fitness, pareto_front, futures, abandoned, measured,
                    timed_out, result >>
    /\ UNCHANGED << cfgVars, evaluated, runs, reference, follow, scorers, sgmVars >>

\* after the loop: best_params, the evaluation of the best solution in the
\* coordinator, the OptimizationResult (its pareto_front and
\* convergence_history are the optimizer's own lists)
Finalize ==
    /\ pc = "finalize"
    /\ \E o \in (IF best_position = None
                  THEN { [scores |-> ZeroScores, raised |-> FALSE] }
                  ELSE Outcomes(best_position)) :
          /\ result' = << [best_parameters |->
                              IF best_position # None
                              THEN PositionToParams(best_position) ELSE None,
                           best_fitness |-> best_fitness,
                           objective_scores |-> o.scores,
                           iterations_completed |-> max_iterations] >>
          /\ measured' = (measured \/ (best_position # None /\ ~o.raised))
    /\ pc' = "shutdown"
    /\ UNCHANGED << parallel_evaluation, iteration, population, fitness_values,
                    memory_positions, memory_fitness, best_position, best_fitness,
                    pareto_front, convergence_history, awareness_probability,
                    flight_length, futures, abandoned, collect_idx, last, timed_out >>
    /\ UNCHANGED << cfgVars, auxVars, sgmVars >>

\* finally: self.executor.shutdown(wait=True) returns once every work item
\* submitted has finished; without an executor there is nothing to wait for
Shutdown ==
    /\ pc = "shutdown"
    /\ parallel_evaluation => Unfinished = 0
    /\ pc' = "done"
    /\ UNCHANGED << parallel_evaluation, iteration, population, fitness_values,
                    memory_positions, memory_fitness, best_position, best_fitness,
                    pareto_front, convergence_history, awareness_probability,
                    flight_length, futures, abandoned, collect_idx, last, measured,
                    timed_out, result >>
    /\ UNCHANGED << cfgVars, auxVars, sgmVars >>

---------------------------------------------------------------------------
(* CrowSearchOptimizer.optimize: the single-objective search *)

\* the parameters optimize returns when no valid solution was found
DefaultParameters ==
    [svm_C |-> 1, svm_gamma |-> "scale", xgb_n_estimators |-> 100,
     xgb_max_depth |-> 6, xgb_learning_rate |-> Rat(1, 10)]

\* an evaluation that reports 0.0 when the classifier raises
EvaluateParametersZeroOnError ==
    { [fitness |-> Rat(f, ScoreMax), raised |-> FALSE] : f \in 0..ScoreMax }
        \cup { [fitness |-> Rat(0, 1), raised |-> TRUE] }

\* _evaluate_parameters: the mean F1 score, or -inf when anything raises
EvaluateParameters ==
    { [fitness |-> Rat(f, ScoreMax), raised |-> FALSE] : f \in 0..ScoreMax }
        \cup { [fitness |-> NegInf, raised |-> TRUE] }

\* _initialize_population and the entry of the main loop
OptimizeStart ==
    /\ pc = "idle"
    /\ \E pop \in InitialPopulations :
          /\ population' = pop
          /\ memory_positions' = pop
    /\ fitness_values' = [i \in Crows |-> NegInf]
    /\ memory_fitness' = [i \in Crows |-> NegInf]
    /\ iteration' = 0
    /\ collect_idx' = 1
    /\ runs' = runs + 1
    /\ pc' = "csa_evaluate"
    /\ UNCHANGED << parallel_evaluation, best_position, best_fitness, pareto_front,
                    convergence_history, awareness_probability, flight_length,
                    futures, abandoned, last, measured, timed_out, result >>
    /\ UNCHANGED << cfgVars, evaluated, reference, trajectory, follow, scorers,
                    sgmVars >>

\* one pass of the evaluation loop: fitness, memory, global best
OptimizeEvaluate ==
    /\ pc = "csa_evaluate"
    /\ collect_idx \in Crows
    /\ \E o \in EvaluateParameters :
          /\ fitness_values' = [fitness_values EXCEPT ![collect_idx] = o.fitness]
          /\ IF Gt(o.fitness, memory_fitness[collect_idx])
             THEN /\ memory_positions' =
                        [memory_positions EXCEPT ![collect_idx] = population[collect_idx]]
                  /\ memory_fitness' = [memory_fitness EXCEPT ![collect_idx] = o.fitness]
             ELSE UNCHANGED << memory_positions, memory_fitness >>
          /\ IF Gt(o.fitness, best_fitness)
             THEN /\ best_fitness' = o.fitness
                  /\ best_position' = population[collect_idx]
             ELSE UNCHANGED << best_fitness, best_position >>
          /\ last' = [i |-> collect_idx, kind |-> "result", raised |-> o.raised,
                      scores |-> None]
          /\ measured' = (measured \/ ~o.raised)
    /\ collect_idx' = collect_idx + 1
    /\ UNCHANGED << pc, parallel_evaluation, iteration, population, pareto_front,
                    convergence_history, awareness_probability, flight_length,
                    futures, abandoned, timed_out, result >>
    /\ UNCHANGED << cfgVars, auxVars, sgmVars >>

\* _update_population and the convergence record of the iteration
OptimizeMove ==
    /\ pc = "csa_evaluate"
    /\ collect_idx = PopulationSize + 1
    /\ population' \in NextPopulations(population, memory_positions,
                                        awareness_probability, flight_length)
    /\ convergence_history' = Append(convergence_history, best_fitness)
    /\ iteration' = iteration + 1
    /\ collect_idx' = 1
    /\ last' = NoLast
    /\ pc' = IF iteration + 1 < max_iterations THEN "csa_evaluate" ELSE "csa_return"
    /\ UNCHANGED << parallel_evaluation, fitness_values, memory_positions,
                    memory_fitness, best_position, best_fitness, pareto_front,
                    awareness_probability, flight_length, futures, abandoned,
                    measured, timed_out, result >>
    /\ UNCHANGED << cfgVars, auxVars, sgmVars >>

\* after the loop: the decoded best position, or the default parameters
OptimizeReturn ==
    /\ pc = "csa_return"
    /\ result' = << IF best_position # None THEN PositionToParams(best_position)
                    ELSE DefaultParameters >>
    /\ pc' = "done"
    /\ UNCHANGED << parallel_evaluation, iteration, population, fitness_values,
                    memory_positions, memory_fitness, best_position, best_fitness,
                    pareto_front, convergence_history, awareness_probability,
                    flight_length, futures, abandoned, collect_idx, last, measured,
                    timed_out >>
    /\ UNCHANGED << cfgVars, auxVars, sgmVars >>

---------------------------------------------------------------------------
(* SGMNetworkAnalyzer: fit, predict_anomaly, adapt_model and the replay buffer *)

\* if len(normal_samples) < 10
MinNormalSamples == 10

\* anomaly scores and calibrated thresholds explored
Scores == 0..1

Thresholds == {0, 1}

\* nothing has been called on the analyzer yet
NoCall ==
    [call |-> "none", raised |-> FALSE, adapted |-> FALSE, reason |-> "",
     new_threshold |-> None, force |-> FALSE, n_samples |-> 0]

\* the state after SGMNetworkAnalyzer.__init__(window_size=w)
InitAnalyzer(w) ==
    /\ is_fitted = FALSE
    /\ window_size = w
    /\ calculated_threshold = None
    /\ adaptation_buffer = << >>
    /\ scored = 0
    /\ gmm_model = None
    /\ scaler = 0
    /\ baseline_statistics = 0
    /\ last_update = 0
    /\ fits = 0
    /\ returned = NoCall

\* list[-n:]
LastN(seq, n) ==
    IF n = 0 THEN seq
    ELSE SubSeq(seq, Max(1, Len(seq) - n + 1), Len(seq))

\* a buffer that is trimmed only beyond three windows
AppendSampleLateTrim(buffer, sample_data, w) ==
    LET appended == Append(buffer, sample_data)
    IN  IF Len(appended) > w * 3 THEN LastN(appended, w) ELSE appended

\* one pass of the loop of _update_adaptation_buffer
AppendSample(buffer, sample_data, w) ==
    LET appended == Append(buffer, sample_data)
    IN  IF Len(appended) > w * 2 THEN LastN(appended, w) ELSE appended

\* _update_adaptation_buffer, rows k..n of the batch; row k is stamped t + k
RECURSIVE UpdateAdaptationBuffer(_, _, _, _, _, _)
UpdateAdaptationBuffer(buffer, batch, k, threshold, w, t) ==
    IF k > Len(batch) THEN buffer
    ELSE UpdateAdaptationBuffer(
             AppendSample(buffer,
                          [score |-> batch[k], is_anomaly |-> batch[k] > threshold,
                           timestamp |-> t + k],
                          w),
             batch, k + 1, threshold, w, t)

\* the batches of anomaly scores one call can score: MaxBatch - 1 or MaxBatch
\* rows, the first row of one score and the other rows of one score
Batches ==
    { [k \in 1..n |-> IF k = 1 THEN first ELSE others] :
        n \in { MaxBatch - 1, MaxBatch }, first \in Scores, others \in Scores }

\* the training set of test_fit_with_insufficient_data: 5 rows for a mixture
\* of 3 components
InsufficientRows == NComponents + 2

\* the sizes of the training sets handed to fit: empty, one row short of the
\* number of components, as many rows as components, and the small set of
\* the test
SampleSizes == { 0, NComponents - 1, NComponents, InsufficientRows }

\* GaussianMixture.fit refuses a training set of fewer rows than components
TooFewSamples(n_samples) == n_samples < NComponents

\* where a fit call ends: it returns self, it raises while the scaler and the
\* reducer are fitted, or it raises while the mixture is fitted
FitOutcomes(n_samples) ==
    IF TooFewSamples(n_samples) THEN { "preprocess_error", "gmm_error" }
    ELSE { "ok", "preprocess_error", "gmm_error" }

\* fit: the scaler and the reducer are refitted first, then self.gmm_model is
\* replaced by a new mixture and fitted, then the threshold, the baseline
\* statistics and the feature importance are computed and the model is
\* marked fitted; an exception at any point is re-raised as RuntimeError
Fit ==
    /\ fits < MaxFits
    /\ fits' = fits + 1
    /\ \E n_samples \in SampleSizes :
       \E outcome \in FitOutcomes(n_samples) :
          /\ returned' = [NoCall EXCEPT !.call = "fit", !.n_samples = n_samples,
                                        !.raised = (outcome # "ok"),
                                        !.reason = outcome]
          /\ CASE outcome = "preprocess_error" ->
                    /\ scaler' \in { scaler, fits + 1 }
                    /\ UNCHANGED << gmm_model, calculated_threshold,
                                    baseline_statistics, is_fitted, last_update >>
               [] outcome = "gmm_error" ->
                    /\ scaler' = fits + 1
                    /\ gmm_model' = [fit |-> fits + 1, blends |-> 0, fitted |-> FALSE]
                    /\ UNCHANGED << calculated_threshold, baseline_statistics,
                                    is_fitted, last_update >>
               [] outcome = "ok" ->
                    /\ scaler' = fits + 1
                    /\ gmm_model' = [fit |-> fits + 1, blends |-> 0, fitted |-> TRUE]
                    /\ calculated_threshold' \in Thresholds
                    /\ baseline_statistics' = fits + 1
                    /\ is_fitted' = TRUE
                    /\ last_update' = last_update + 1
    /\ UNCHANGED << window_size, adaptation_buffer, scored >>
    /\ UNCHANGED << optVars, cfgVars, auxVars >>

\* a check of the fitted flag that never refuses
NotFittedNever(fitted) == FALSE

\* if not self.is_fitted: raise ValueError
NotFitted(fitted) == ~fitted

\* the mixture can score: it has been fitted
CanScore(model) == model # None /\ model.fitted

\* a predict_anomaly that buffers the rows before it scores them
PredictAnomalyBuffersFirst ==
    /\ \E batch \in Batches, raises \in BOOLEAN :
          /\ scored + Len(batch) <= MaxScored
          /\ IF NotFitted(is_fitted)
             THEN /\ returned' = [NoCall EXCEPT !.call = "predict_anomaly",
                                                !.raised = TRUE,
                                                !.reason = "not_fitted"]
                  /\ UNCHANGED << adaptation_buffer, scored >>
             ELSE /\ returned' =
                        IF raises \/ ~CanScore(gmm_model)
                        THEN [NoCall EXCEPT !.call = "predict_anomaly",
                                            !.raised = TRUE,
                                            !.reason = "prediction_error"]
                        ELSE [NoCall EXCEPT !.call = "predict_anomaly"]
                  /\ adaptation_buffer' =
                        UpdateAdaptationBuffer(adaptation_buffer, batch, 1,
                                               calculated_threshold, window_size,
                                               scored)
                  /\ scored' = scored + Len(batch)
    /\ UNCHANGED << is_fitted, window_size, calculated_threshold, gmm_model, scaler,
                    baseline_statistics, last_update, fits >>
    /\ UNCHANGED << optVars, cfgVars, auxVars >>

\* predict_anomaly: ValueError on an unfitted model; otherwise the rows are
\* preprocessed and scored (any exception is re-raised as RuntimeError) and,
\* last, appended to the replay buffer
PredictAnomaly ==
    /\ \E batch \in Batches, raises \in BOOLEAN :
          /\ scored + Len(batch) <= MaxScored
          /\ IF NotFitted(is_fitted)
             THEN /\ returned' = [NoCall EXCEPT !.call = "predict_anomaly",
                                                !.raised = TRUE,
                                                !.reason = "not_fitted"]
                  /\ UNCHANGED << adaptation_buffer, scored >>
             ELSE IF raises \/ ~CanScore(gmm_model)
             THEN /\ returned' = [NoCall EXCEPT !.call = "predict_anomaly",
                                                !.raised = TRUE,
                                                !.reason = "prediction_error"]
                  /\ UNCHANGED << adaptation_buffer, scored >>
             ELSE /\ adaptation_buffer' =
                        UpdateAdaptationBuffer(adaptation_buffer, batch, 1,
                                               calculated_threshold, window_size,
                                               scored)
                  /\ scored' = scored + Len(batch)
                  /\ returned' = [NoCall EXCEPT !.call = "predict_anomaly"]
    /\ UNCHANGED << is_fitted, window_size, calculated_threshold, gmm_model, scaler,
                    baseline_statistics, last_update, fits >>
    /\ UNCHANGED << optVars, cfgVars, auxVars >>

\* Two threads in predict_anomaly on one analyzer.  A thread runs the
\* statements of _update_adaptation_buffer one at a time; between two of them
\* the other thread may run.
Threads == { 1, 2 }

\* the calls that have been made and have not returned
ActiveScorers == { t \in DOMAIN scorers : scorers[t].pc # "returned" }

\* the statement after the trim of row k, or after the test that skips it
AfterRow(scorer) ==
    IF scorer.k < Len(scorer.batch)
    THEN [scorer EXCEPT !.pc = "append", !.k = @ + 1, !.kept = << >>]
    ELSE [scorer EXCEPT !.pc = "return", !.kept = << >>]

\* lines 157-192: the rows are scored and flagged against the threshold
ScorerBegin(t) ==
    /\ t \notin DOMAIN scorers
    /\ ~NotFitted(is_fitted)
    /\ CanScore(gmm_model)
    /\ \E batch \in Batches :
          scorers' = [u \in DOMAIN scorers \cup {t} |->
                         IF u = t
                         THEN [pc |-> "append", batch |-> batch, k |-> 1,
                               anomalies |-> [k \in DOMAIN batch |->
                                                 batch[k] > calculated_threshold],
                               kept |-> << >>]
                         ELSE scorers[u]]
    /\ UNCHANGED sgmVars
    /\ UNCHANGED << optVars, cfgVars, evaluated, runs, reference, trajectory, follow >>

\* line 473: self.adaptation_buffer.append(sample_data)
ScorerAppend(t) ==
    /\ t \in DOMAIN scorers
    /\ scorers[t].pc = "append"
    /\ adaptation_buffer' =
          Append(adaptation_buffer,
                 [score |-> scorers[t].batch[scorers[t].k],
                  is_anomaly |-> scorers[t].anomalies[scorers[t].k],
                  timestamp |-> scored + 1])
    /\ scored' = scored + 1
    /\ scorers' = [scorers EXCEPT ![t].pc = "test"]
    /\ UNCHANGED << is_fitted, window_size, calculated_threshold, gmm_model, scaler,
                    baseline_statistics, last_update, fits, returned >>
    /\ UNCHANGED << optVars, cfgVars, evaluated, runs, reference, trajectory, follow >>

\* line 476: if len(self.adaptation_buffer) > self.window_size * 2
ScorerTest(t) ==
    /\ t \in DOMAIN scorers
    /\ scorers[t].pc = "test"
    /\ scorers' = [scorers EXCEPT ![t] =
                       IF Len(adaptation_buffer) > window_size * 2
                       THEN [@ EXCEPT !.pc = "slice"]
                       ELSE AfterRow(@)]
    /\ UNCHANGED sgmVars
    /\ UNCHANGED << optVars, cfgVars, evaluated, runs, reference, trajectory, follow >>

\* line 478, right-hand side: self.adaptation_buffer[-self.window_size:]
ScorerSlice(t) ==
    /\ t \in DOMAIN scorers
    /\ scorers[t].pc = "slice"
    /\ scorers' = [scorers EXCEPT ![t].pc = "store",
                                  ![t].kept = LastN(adaptation_buffer, window_size)]
    /\ UNCHANGED sgmVars
    /\ UNCHANGED << optVars, cfgVars, evaluated, runs, reference, trajectory, follow >>

\* line 478, assignment: self.adaptation_buffer = <the slice>
ScorerStore(t) ==
    /\ t \in DOMAIN scorers
    /\ scorers[t].pc = "store"
    /\ adaptation_buffer' = scorers[t].kept
    /\ scorers' = [scorers EXCEPT ![t] = AfterRow(@)]
    /\ UNCHANGED << is_fitted, window_size, calculated_threshold, scored, gmm_model,
                    scaler, baseline_statistics, last_update, fits, returned >>
    /\ UNCHANGED << optVars, cfgVars, evaluated, runs, reference, trajectory, follow >>

\* line 200: return results
ScorerReturn(t) ==
    /\ t \in DOMAIN scorers
    /\ scorers[t].pc = "return"
    /\ scorers' = [scorers EXCEPT ![t].pc = "returned"]
    /\ returned' = [NoCall EXCEPT !.call = "predict_anomaly"]
    /\ UNCHANGED << is_fitted, window_size, calculated_threshold, adaptation_buffer,
                    scored, gmm_model, scaler, baseline_statistics, last_update, fits >>
    /\ UNCHANGED << optVars, cfgVars, evaluated, runs, reference, trajectory, follow >>

\* fit, called while no scoring call is in progress
FitAlone ==
    /\ scorers = << >>
    /\ Fit

\* the normal samples of the buffer
NormalSamples(buffer) == { k \in DOMAIN buffer : ~buffer[k].is_anomaly }

\* len(self.adaptation_buffer) < self.window_size and not force_adaptation
InsufficientData(buffer, w, force_adaptation) ==
    Len(buffer) < w /\ ~force_adaptation

\* a check of the normal samples that lets every buffer through
InsufficientNormalSamplesNever(buffer) == FALSE

\* len(normal_samples) < 10
InsufficientNormalSamples(buffer) ==
    Cardinality(NormalSamples(buffer)) < MinNormalSamples

\* the blend of the mixture parameters with those of the temporary model
Blended(model) == [model EXCEPT !.blends = @ + 1]

\* an adaptation that succeeds but keeps the buffer and the old stamp
AdaptedKeepsBuffer(force_adaptation) ==
    /\ gmm_model' = Blended(gmm_model)
    /\ \E th \in Thresholds :
          /\ calculated_threshold' = th
          /\ returned' = [NoCall EXCEPT !.call = "adapt_model", !.adapted = TRUE,
                                        !.new_threshold = th,
                                        !.force = force_adaptation]
    /\ UNCHANGED << adaptation_buffer, last_update >>

\* the adaptation attempt runs to its end: the parameters are blended, the
\* threshold is recalculated, the buffer is cleared, last_update is stamped
\* and the new threshold is reported
Adapted(force_adaptation) ==
    /\ gmm_model' = Blended(gmm_model)
    /\ \E th \in Thresholds :
          /\ calculated_threshold' = th
          /\ returned' = [NoCall EXCEPT !.call = "adapt_model", !.adapted = TRUE,
                                        !.new_threshold = th,
                                        !.force = force_adaptation]
    /\ adaptation_buffer' = << >>
    /\ last_update' = last_update + 1

\* where an adaptation attempt ends: at its end, at an exception before the
\* parameters of self.gmm_model are assigned, or at one after
AttemptOutcomes(model) ==
    IF CanScore(model) THEN { "ok", "error_before_blend", "error_after_blend" }
    ELSE { "error_before_blend" }

\* adapt_model: ValueError on an unfitted model; adapted False when the
\* buffer is short and adaptation is not forced, when fewer than 10 normal
\* samples are buffered, and when the attempt raises
AdaptModel ==
    /\ \E force_adaptation \in BOOLEAN :
          IF NotFitted(is_fitted)
          THEN /\ returned' = [NoCall EXCEPT !.call = "adapt_model", !.raised = TRUE,
                                             !.reason = "not_fitted",
                                             !.force = force_adaptation]
               /\ UNCHANGED << gmm_model, calculated_threshold, adaptation_buffer,
                               last_update >>
          ELSE IF InsufficientData(adaptation_buffer, window_size, force_adaptation)
          THEN /\ returned' = [NoCall EXCEPT !.call = "adapt_model",
                                             !.reason = "insufficient_data",
                                             !.force = force_adaptation]
               /\ UNCHANGED << gmm_model, calculated_threshold, adaptation_buffer,
                               last_update >>
          ELSE IF InsufficientNormalSamples(adaptation_buffer)
          THEN /\ returned' = [NoCall EXCEPT !.call = "adapt_model",
                                             !.reason = "insufficient_normal_samples",
                                             !.force = force_adaptation]
               /\ UNCHANGED << gmm_model, calculated_threshold, adaptation_buffer,
                               last_update >>
          ELSE \E outcome \in AttemptOutcomes(gmm_model) :
                 CASE outcome = "ok" ->
                        /\ gmm_model.blends < MaxBlends
                        /\ Adapted(force_adaptation)
                   [] outcome = "error_before_blend" ->
                        /\ returned' = [NoCall EXCEPT !.call = "adapt_model",
                                                      !.reason = "adaptation_error",
                                                      !.force = force_adaptation]
                        /\ UNCHANGED << gmm_model, calculated_threshold,
                                        adaptation_buffer, last_update >>
                   [] outcome = "error_after_blend" ->
                        /\ gmm_model.blends < MaxBlends
                        /\ gmm_model' = Blended(gmm_model)
                        /\ returned' = [NoCall EXCEPT !.call = "adapt_model",
                                                      !.reason = "adaptation_error",
                                                      !.force = force_adaptation]
                        /\ UNCHANGED << calculated_threshold, adaptation_buffer,
                                        last_update >>
    /\ UNCHANGED << is_fitted, window_size, scored, scaler, baseline_statistics,
                    fits >>
    /\ UNCHANGED << optVars, cfgVars, auxVars >>

---------------------------------------------------------------------------
(* Specifications *)

\* one run of optimize_multi_objective on a fresh optimizer, in parallel or in
\* sequential mode
Init ==
    /\ InitOptimizer
    /\ parallel_evaluation \in BOOLEAN
    /\ InitAnalyzer(0)

Next ==
    \/ StartRun
    \/ Submit
    \/ \E i \in Crows : UnitFinish(i)
    \/ AbandonedFinish
    \/ CollectResult
    \/ CollectTimeout
    \/ SequentialEvaluate
    \/ FinishIteration
    \/ Finalize
    \/ Shutdown

Spec == Init /\ [][Next]_vars

\* the window sizes explored: none, the smallest, one that the normal
\* samples an adaptation needs fill, and one that they do not fill
Windows == { 0, 1, MaxWindow - 1, MaxWindow }

\* an analyzer of any window size: fit, scoring calls, adaptations
InitSGM ==
    /\ InitOptimizer
    /\ parallel_evaluation = FALSE
    /\ \E w \in Windows : InitAnalyzer(w)

NextSGM ==
    \/ Fit
    \/ PredictAnomaly
    \/ AdaptModel

SpecSGM == InitSGM /\ [][NextSGM]_vars

\* The Pareto front under any sequence of insertions of score vectors.  A
\* behaviour starts from the empty front or from a front that runs have
\* filled to one below its capacity with solutions of equal scores; from the
\* empty front it grows to MaxFrontLen members.  The parameters of a
\* solution ride along: every solution inserted carries the same ones.
SomeParams == PositionToParams([a \in Axes |-> ParameterBounds[a].min])

FilledFronts ==
    { [k \in 1..(ParetoCap - 1) |->
         [parameters |-> SomeParams, objectives |-> v,
          fitness |-> CalculateWeightedFitness(v)]] :
       v \in ScoreVectors }

InitFront ==
    /\ objectives = Objectives
    /\ DefaultConfig
    /\ InitSearch
    /\ parallel_evaluation = FALSE
    /\ pareto_front \in { << >> } \cup FilledFronts
    /\ InitAnalyzer(0)

\* one call of _update_pareto_front; evaluated holds the solution handed to
\* the last call
InsertSolution ==
    /\ Len(pareto_front) < MaxFrontLen \/ Len(pareto_front) >= ParetoCap - 1
    /\ \E objective_scores \in ScoreVectors :
          LET fitness == CalculateWeightedFitness(objective_scores)
          IN  /\ pareto_front' = UpdateParetoFront(pareto_front, SomeParams,
                                                   objective_scores, fitness)
              /\ evaluated' = << [raw |-> objective_scores,
                                  objective_scores |-> objective_scores,
                                  fitness |-> fitness] >>
    /\ UNCHANGED << pc, parallel_evaluation, iteration, population, fitness_values,
                    memory_positions, memory_fitness, best_position, best_fitness,
                    convergence_history, awareness_probability, flight_length,
                    futures, abandoned, collect_idx, last, measured, timed_out, result >>
    /\ UNCHANGED << cfgVars, runs, reference, trajectory, follow, scorers, sgmVars >>

NextFront == InsertSolution

SpecFront == InitFront /\ [][NextFront]_vars

---------------------------------------------------------------------------
(* C1 *)

\* C1: after every update of the Pareto front, no member of the front
\* dominates another member.
C1_FrontMutuallyNonDominated ==
    \A a, b \in DOMAIN pareto_front :
        ~Dominates(pareto_front[a].objectives, pareto_front[b].objectives)

\* a full front that holds solutions of different scores: insertions have
\* evicted members and cut the front to its capacity
C1_Witness ==
    /\ Len(pareto_front) = ParetoCap
    /\ \E a, b \in DOMAIN pareto_front :
          pareto_front[a].objectives # pareto_front[b].objectives

\* The fitness aggregator and the dominance test under the objective lists a
\* caller can configure, applied to the candidates of a sequential evaluation
\* one by one.

\* the target ranges explored, in score units: none, one that contains the
\* scores, one above them and one below them
TargetRanges == { None, << -1, 1 >>, << 1, 2 >>, << -1, 0 >> }

\* the objective lists explored: a classifier metric to maximise or minimise
\* and a density metric with any weight, direction and target range
ObjectiveConfigs ==
    { << [name |-> "accuracy", weight |-> w1, minimize |-> m1, target_range |-> None],
         [name |-> "sgm_detection_rate", weight |-> w2, minimize |-> m2,
          target_range |-> tr] >> :
        w1 \in {0, 2}, m1 \in BOOLEAN, w2 \in 0..2, m2 \in BOOLEAN,
        tr \in TargetRanges }

\* what the evaluators report for one candidate: the classifier metrics when
\* a classifier is given, the density metrics when they are included
RawScores ==
    UNION { [names -> 0..ScoreMax] : names \in SUBSET (MLNames \cup SGMNames) }

\* an evaluation that returns what the evaluators reported and no more
EvaluateMultiObjectiveNoDefaults(raw) ==
    raw

\* _evaluate_multi_objective after the evaluators: default scores for the
\* objectives they did not report
EvaluateMultiObjective(raw) ==
    [n \in DOMAIN raw \cup ObjNames |-> IF n \in DOMAIN raw THEN raw[n] ELSE 0]

InitObjectives ==
    /\ objectives \in ObjectiveConfigs
    /\ DefaultConfig
    /\ InitSearch
    /\ pareto_front = << >>
    /\ parallel_evaluation = FALSE
    /\ InitAnalyzer(0)

\* objective_scores = evaluate_solution(params);
\* fitness = self._calculate_weighted_fitness(objective_scores)
EvaluateCandidate ==
    /\ Len(evaluated) < MaxEvaluated
    /\ \E raw \in RawScores :
          LET objective_scores == EvaluateMultiObjective(raw)
          IN  evaluated' =
                  Append(evaluated,
                         [raw |-> raw, objective_scores |-> objective_scores,
                          fitness |-> CalculateWeightedFitness(objective_scores)])
    /\ UNCHANGED << pc, parallel_evaluation, iteration, population, fitness_values,
                    memory_positions, memory_fitness, best_position, best_fitness,
                    pareto_front, convergence_history, awareness_probability,
                    flight_length, futures, abandoned, collect_idx, last, measured,
                    timed_out, result >>
    /\ UNCHANGED << cfgVars, runs, reference, trajectory, follow, scorers, sgmVars >>

NextObjectives == EvaluateCandidate

SpecObjectives == InitObjectives /\ [][NextObjectives]_vars

\* Sequential runs of optimizers constructed with other awareness
\* probabilities and flight lengths, adaptive_parameters on or off.

\* awareness_probability passed to the constructor: the settings' 0.1, and
\* 0.04, which is below the floor of the schedule
ConfiguredAwareness == { InitialAwareness, Rat(1, 25) }

\* flight_length passed to the constructor: the settings' 2.0, and 0.5, which
\* is below the floor of the schedule
ConfiguredFlightLength == { InitialFlightLength, Rat(1, 2) }

InitSchedule ==
    /\ objectives = Objectives
    /\ adaptive_parameters \in BOOLEAN
    /\ initial_awareness_probability \in ConfiguredAwareness
    /\ initial_flight_length \in ConfiguredFlightLength
    /\ max_iterations = MaxIterations
    /\ seed = None
    /\ evaluator = None
    /\ InitSearch
    /\ pareto_front = << >>
    /\ parallel_evaluation = FALSE
    /\ InitAnalyzer(0)

NextSchedule ==
    \/ StartRun
    \/ SequentialEvaluate
    \/ FinishIteration
    \/ Finalize
    \/ Shutdown

SpecSchedule == InitSchedule /\ [][NextSchedule]_vars

\* Calls of optimize_multi_objective one after the other on one optimizer
\* instance, in sequential or in parallel mode, the caller seeding np.random
\* before each call and the evaluators being deterministic.
InitRerun ==
    /\ objectives = Objectives
    /\ adaptive_parameters = TRUE
    /\ initial_awareness_probability = InitialAwareness
    /\ initial_flight_length = InitialFlightLength
    /\ max_iterations = MaxIterations
    /\ seed \in Seeds
    /\ evaluator \in Evaluators
    /\ InitSearch
    /\ pareto_front = << >>
    /\ parallel_evaluation \in BOOLEAN
    /\ InitAnalyzer(0)

NextRerun ==
    \/ StartRun
    \/ StartAgain
    \/ Submit
    \/ SubmitRaises
    \/ \E i \in Crows : UnitFinish(i)
    \/ AbandonedFinish
    \/ CollectResult
    \/ CollectTimeout
    \/ SequentialEvaluate
    \/ FinishIteration
    \/ Finalize
    \/ Shutdown

SpecRerun == InitRerun /\ [][NextRerun]_vars

\* Sequential runs one after the other on one optimizer, np.random not
\* seeded by the caller and the evaluations free to differ from call to call
\* (other data, other folds).
InitSequel ==
    /\ InitOptimizer
    /\ parallel_evaluation = FALSE
    /\ InitAnalyzer(0)

NextSequel ==
    \/ StartRun
    \/ StartAgain
    \/ SequentialEvaluate
    \/ FinishIteration
    \/ Finalize
    \/ Shutdown

SpecSequel == InitSequel /\ [][NextSequel]_vars

\* Two runs from the same seed, each on a fresh optimizer, with the same
\* deterministic evaluator: the first run is kept as the reference and the
\* second one starts from the state after construction.

\* the seeds explored: the crows start apart and follow each other's memory
ReplaySeeds ==
    { s \in Seeds : /\ s.init[1] # s.init[2]
                    /\ \A i \in Crows : s.moves[i].r = RandomDen - 1 }

\* the evaluators explored: they measure and do not raise
ReplayEvaluators ==
    { e \in Evaluators : \A params \in AllParams : ~e.outcome[params].raised }

InitReplay ==
    /\ objectives = Objectives
    /\ adaptive_parameters = TRUE
    /\ initial_awareness_probability = InitialAwareness
    /\ initial_flight_length = InitialFlightLength
    /\ max_iterations = MaxIterations
    /\ seed \in ReplaySeeds
    /\ evaluator \in ReplayEvaluators
    /\ InitSearch
    /\ pareto_front = << >>
    /\ parallel_evaluation \in BOOLEAN
    /\ InitAnalyzer(0)

\* the first run has returned: what it went through and returned is kept,
\* and a new optimizer is constructed with the same arguments
Replay ==
    /\ pc = "done"
    /\ reference = None
    /\ reference' = << [trajectory |-> trajectory, result |-> result,
                        pareto_front |-> pareto_front,
                        convergence_history |-> convergence_history,
                        timed_out |-> timed_out] >>
    /\ pc' = "idle"
    /\ iteration' = 0
    /\ population' = None
    /\ fitness_values' = None
    /\ memory_positions' = None
    /\ memory_fitness' = None
    /\ best_position' = None
    /\ best_fitness' = NegInf
    /\ pareto_front' = << >>
    /\ convergence_history' = << >>
    /\ awareness_probability' = initial_awareness_probability
    /\ flight_length' = initial_flight_length
    /\ futures' = [i \in Crows |-> "none"]
    /\ abandoned' = [pending |-> 0, running |-> 0, hung |-> 0]
    /\ collect_idx' = 0
    /\ last' = NoLast
    /\ measured' = FALSE
    /\ timed_out' = FALSE
    /\ result' = None
    /\ runs' = 0
    /\ trajectory' = << >>
    /\ UNCHANGED << parallel_evaluation, cfgVars, evaluated, follow, scorers, sgmVars >>

NextReplay ==
    \/ StartRun
    \/ Submit
    \/ \E i \in Crows : UnitFinish(i)
    \/ AbandonedFinish
    \/ CollectResult
    \/ CollectTimeout
    \/ SequentialEvaluate
    \/ FinishIteration
    \/ Finalize
    \/ Shutdown
    \/ Replay

SpecReplay == InitReplay /\ [][NextReplay]_vars

\* A parallel run of LongRun iterations: PopulationSize * LongRun work items
\* go to the MaxWorkers workers of the executor.  The seed is fixed and the
\* evaluator reports the same outcome for every parameter set.
SteadyEvaluators ==
    { e \in ReplayEvaluators :
        \A p1 \in AllParams, p2 \in AllParams : e.outcome[p1] = e.outcome[p2] }

InitLongRun ==
    /\ objectives = Objectives
    /\ adaptive_parameters = TRUE
    /\ initial_awareness_probability = InitialAwareness
    /\ initial_flight_length = InitialFlightLength
    /\ max_iterations = LongRun
    /\ seed \in ReplaySeeds
    /\ evaluator \in SteadyEvaluators
    /\ InitSearch
    /\ pareto_front = << >>
    /\ parallel_evaluation = TRUE
    /\ InitAnalyzer(0)

NextLongRun ==
    \/ StartRun
    \/ Submit
    \/ \E i \in Crows : UnitFinish(i)
    \/ AbandonedFinish
    \/ CollectResult
    \/ CollectTimeout
    \/ FinishIteration
    \/ Finalize
    \/ Shutdown

SpecLongRun == InitLongRun /\ [][NextLongRun]_vars

\* A sequential run and a parallel run on the same seed and the same
\* evaluation outcomes: the sequential run is stopped after one of its
\* iterations, what it has reached is kept as the reference, and an optimizer
\* with parallel_evaluation=True is constructed and run.  No future times out.
InitModes ==
    /\ objectives = Objectives
    /\ adaptive_parameters = TRUE
    /\ initial_awareness_probability = InitialAwareness
    /\ initial_flight_length = InitialFlightLength
    /\ max_iterations = MaxIterations
    /\ seed \in ReplaySeeds
    /\ evaluator \in Schedules
    /\ InitSearch
    /\ pareto_front = << >>
    /\ parallel_evaluation = FALSE
    /\ InitAnalyzer(0)

SwitchMode ==
    /\ ~parallel_evaluation
    /\ reference = None
    /\ pc \in {"evaluate", "finalize"}
    /\ iteration >= 1
    /\ collect_idx = 1
    /\ reference' = << [iteration |-> iteration,
                        fitness_values |-> fitness_values,
                        memory_positions |-> memory_positions,
                        memory_fitness |-> memory_fitness,
                        pareto_front |-> pareto_front,
                        best_fitness |-> best_fitness,
                        best_position |-> best_position] >>
    /\ parallel_evaluation' = TRUE
    /\ pc' = "idle"
    /\ iteration' = 0
    /\ population' = None
    /\ fitness_values' = None
    /\ memory_positions' = None
    /\ memory_fitness' = None
    /\ best_position' = None
    /\ best_fitness' = NegInf
    /\ pareto_front' = << >>
    /\ convergence_history' = << >>
    /\ awareness_probability' = initial_awareness_probability
    /\ flight_length' = initial_flight_length
    /\ futures' = [i \in Crows |-> "none"]
    /\ abandoned' = [pending |-> 0, running |-> 0, hung |-> 0]
    /\ collect_idx' = 0
    /\ last' = NoLast
    /\ measured' = FALSE
    /\ timed_out' = FALSE
    /\ result' = None
    /\ runs' = 0
    /\ trajectory' = << >>
    /\ UNCHANGED << cfgVars, evaluated, follow, scorers, sgmVars >>

NextModes ==
    \/ StartRun
    \/ SequentialEvaluate
    \/ Submit
    \/ \E i \in Crows : UnitFinish(i)
    \/ CollectResult
    \/ FinishIteration
    \/ Finalize
    \/ Shutdown
    \/ SwitchMode

SpecModes == InitModes /\ [][NextModes]_vars

\* one run of CrowSearchOptimizer.optimize on a fresh optimizer
InitCSA ==
    /\ InitOptimizer
    /\ parallel_evaluation = FALSE
    /\ InitAnalyzer(0)

NextCSA ==
    \/ OptimizeStart
    \/ OptimizeEvaluate
    \/ OptimizeMove
    \/ OptimizeReturn

SpecCSA == InitCSA /\ [][NextCSA]_vars

\* The statements of _update_population, one at a time, for optimizers of
\* population_size 1 .. MaxPopulation.
PopulationSizes == 1..MaxPopulation

\* CrowSearchOptimizer(population_size=size), _initialize_population (memory
\* positions are a copy of the population), and line 169 of the first
\* _update_population: new_population = self.population.copy()
MoveEnter ==
    /\ follow.pc = "idle"
    /\ \E size \in PopulationSizes :
       \E pop \in [1..size -> RandomPositions] :
          /\ population' = pop
          /\ memory_positions' = pop
          /\ follow' = [NoFollow EXCEPT !.pc = "draw", !.size = size, !.i = 1,
                                        !.new_population = pop]
    /\ UNCHANGED << pc, parallel_evaluation, iteration, fitness_values, memory_fitness,
                    best_position, best_fitness, pareto_front, convergence_history,
                    awareness_probability, flight_length, futures, abandoned,
                    collect_idx, last, measured, timed_out, result >>
    /\ UNCHANGED << cfgVars, evaluated, runs, reference, trajectory, scorers, sgmVars >>

\* lines 173 and 175: j = np.random.randint(0, self.population_size) gives j
MoveDraw(j) ==
    /\ follow.pc = "draw"
    /\ j \in 1..follow.size
    /\ follow' = [follow EXCEPT !.pc = "test", !.j = j]
    /\ UNCHANGED << optVars, cfgVars, evaluated, runs, reference, trajectory, scorers,
                    sgmVars >>

\* line 174: while j == i
MoveTest ==
    /\ follow.pc = "test"
    /\ follow' = [follow EXCEPT !.pc = IF follow.j = follow.i THEN "draw" ELSE "step"]
    /\ UNCHANGED << optVars, cfgVars, evaluated, runs, reference, trajectory, scorers,
                    sgmVars >>

\* lines 177-194: crow i moves after crow j, and the loop goes to the next crow
MoveStep ==
    /\ follow.pc = "step"
    /\ \E r \in RandomDraws :
       \E u \in [Axes -> RandomDraws] :
          follow' =
              [follow EXCEPT
                  !.pc = IF follow.i = follow.size THEN "store" ELSE "draw",
                  !.i = @ + 1,
                  !.j = 0,
                  !.picked = Append(@, follow.j),
                  !.new_population[follow.i] =
                      MoveWith(follow.i, [j |-> follow.j, r |-> r, u |-> u],
                               population, memory_positions,
                               awareness_probability, flight_length)]
    /\ UNCHANGED << optVars, cfgVars, evaluated, runs, reference, trajectory, scorers,
                    sgmVars >>

\* line 196: self.population = new_population
MoveStore ==
    /\ follow.pc = "store"
    /\ population' = follow.new_population
    /\ follow' = [follow EXCEPT !.pc = "moved"]
    /\ UNCHANGED << pc, parallel_evaluation, iteration, fitness_values,
                    memory_positions, memory_fitness, best_position, best_fitness,
                    pareto_front, convergence_history, awareness_probability,
                    flight_length, futures, abandoned, collect_idx, last, measured,
                    timed_out, result >>
    /\ UNCHANGED << cfgVars, evaluated, runs, reference, trajectory, scorers, sgmVars >>

InitMove ==
    /\ InitOptimizer
    /\ parallel_evaluation = FALSE
    /\ InitAnalyzer(0)

NextMove ==
    \/ MoveEnter
    \/ \E j \in PopulationSizes : MoveDraw(j)
    \/ MoveTest
    \/ MoveStep
    \/ MoveStore

\* The thread of the move step keeps running, and np.random.randint gives
\* every value of its range again and again: a value that can be drawn
\* infinitely often is drawn.
FairMove ==
    /\ WF_vars(NextMove)
    /\ \A j \in PopulationSizes : SF_vars(MoveDraw(j))

SpecMove == InitMove /\ [][NextMove]_vars /\ FairMove

\* _calculate_anomaly_severity, for one score
CalculateAnomalySeverity(score, threshold) ==
    LET high_threshold     == threshold * 2
        critical_threshold == threshold * 3
    IN  IF score < threshold THEN "normal"
        ELSE IF score < high_threshold THEN "low"
        ELSE IF score < critical_threshold THEN "medium"
        ELSE "high"

GradedValues == (0 - MaxGrade)..MaxGrade

\* predict_anomaly on one row of a fitted analyzer: the row's flag (line 169),
\* its severity (line 170), and the row in the adaptation buffer
ScoreRow ==
    /\ Len(evaluated) < MaxEvaluated
    /\ ~NotFitted(is_fitted)
    /\ CanScore(gmm_model)
    /\ \E score \in GradedValues :
          /\ evaluated' =
                 Append(evaluated,
                        [score |-> score,
                         is_anomaly |-> score > calculated_threshold,
                         severity |-> CalculateAnomalySeverity(score,
                                                               calculated_threshold)])
          /\ adaptation_buffer' =
                 UpdateAdaptationBuffer(adaptation_buffer, << score >>, 1,
                                        calculated_threshold, window_size, scored)
    /\ scored' = scored + 1
    /\ returned' = [NoCall EXCEPT !.call = "predict_anomaly"]
    /\ UNCHANGED << is_fitted, window_size, calculated_threshold, gmm_model, scaler,
                    baseline_statistics, last_update, fits >>
    /\ UNCHANGED << optVars, cfgVars, runs, reference, trajectory, follow, scorers >>

\* an analyzer after a fit that calibrated any of the thresholds
InitSeverity ==
    /\ InitOptimizer
    /\ parallel_evaluation = FALSE
    /\ is_fitted = TRUE
    /\ window_size = 1
    /\ calculated_threshold \in GradedValues
    /\ adaptation_buffer = << >>
    /\ scored = 0
    /\ gmm_model = [fit |-> 1, blends |-> 0, fitted |-> TRUE]
    /\ scaler = 1
    /\ baseline_statistics = 1
    /\ last_update = 1
    /\ fits = 1
    /\ returned = [NoCall EXCEPT !.call = "fit", !.n_samples = InsufficientRows,
                                 !.reason = "ok"]

NextSeverity == ScoreRow

SpecSeverity == InitSeverity /\ [][NextSeverity]_vars

\* |a - b| on thresholds
Distance(a, b) == IF a > b THEN a - b ELSE b - a

\* line 442: 1.0 / (1.0 + abs(results['threshold'] - temp_sgm.calculated_threshold))
SgmStability(results, temp_sgm) ==
    Rat(1, 1 + Distance(results.threshold, temp_sgm.calculated_threshold))

\* _evaluate_sgm_objectives(sgm_params, X, sgm_analyzer): a temporary analyzer
\* is built from the parameters and fitted on X, X is scored with it, and the
\* stability is computed from the result and the temporary analyzer.  The
\* analyzer passed in (the state of this module's analyzer) is not read.  A
\* failure of the fit is answered with the zero scores.
EvaluateSgmObjectives ==
    /\ Len(evaluated) < MaxEvaluated
    /\ \E n_samples \in SampleSizes :
       \E outcome \in FitOutcomes(n_samples) :
       \E threshold \in Thresholds :
          LET temp_sgm == [calculated_threshold |-> threshold]
              results  == [threshold |-> temp_sgm.calculated_threshold]
          IN  evaluated' =
                  Append(evaluated,
                         IF outcome = "ok"
                         THEN [failed |-> FALSE,
                               t_eval |-> temp_sgm.calculated_threshold,
                               ref_fitted |-> is_fitted,
                               t_ref |-> calculated_threshold,
                               sgm_stability |-> SgmStability(results, temp_sgm)]
                         ELSE [failed |-> TRUE,
                               t_eval |-> None,
                               ref_fitted |-> is_fitted,
                               t_ref |-> calculated_threshold,
                               sgm_stability |-> Rat(0, 1)])
    /\ UNCHANGED sgmVars
    /\ UNCHANGED << optVars, cfgVars, runs, reference, trajectory, follow, scorers >>

\* the reference analyzer is fitted, and candidates are evaluated against it
InitStability ==
    /\ InitOptimizer
    /\ parallel_evaluation = FALSE
    /\ InitAnalyzer(1)

NextStability ==
    \/ Fit
    \/ EvaluateSgmObjectives

SpecStability == InitStability /\ [][NextStability]_vars

\* an analyzer of a small window that is fitted and then scored by two
\* threads at once
ScoringWindows == { 1, 2 }

InitScoring ==
    /\ InitOptimizer
    /\ parallel_evaluation = FALSE
    /\ \E w \in ScoringWindows : InitAnalyzer(w)

NextScoring ==
    \/ FitAlone
    \/ \E t \in Threads : ScorerBegin(t)
    \/ \E t \in Threads : ScorerAppend(t)
    \/ \E t \in Threads : ScorerTest(t)
    \/ \E t \in Threads : ScorerSlice(t)
    \/ \E t \in Threads : ScorerStore(t)
    \/ \E t \in Threads : ScorerReturn(t)

SpecScoring == InitScoring /\ [][NextScoring]_vars

---------------------------------------------------------------------------
(* C2 *)

InBounds(position) ==
    \A a \in Axes :
        /\ ParameterBounds[a].min <= position[a]
        /\ position[a] <= ParameterBounds[a].max

\* the values of a decoded parameter dictionary lie within their axes
DecodedInBounds(position) ==
    \A a \in Axes :
        LET value == PositionToParams(position)[ParameterBounds[a].name]
        IN  ParameterBounds[a].min <= value /\ value <= ParameterBounds[a].max

\* C2: at every point of a run every coordinate of every candidate position
\* and of every remembered-best position lies within [min, max] of its axis,
\* and so does every decoded parameter value handed to an evaluator (the
\* decoded candidates, the decoded best position, integer axes rounded).
C2_WithinBounds ==
    /\ population # None =>
          \A i \in Crows :
              /\ InBounds(population[i])
              /\ InBounds(memory_positions[i])
              /\ DecodedInBounds(population[i])
    /\ best_position # None =>
          InBounds(best_position) /\ DecodedInBounds(best_position)

\* after a move: a candidate at the lower bound of its axis, away from its
\* remembered position, and a candidate between two integers
C2_Witness ==
    /\ iteration >= 1
    /\ \E i \in Crows, a \in Axes :
          /\ population[i][a] = ParameterBounds[a].min
          /\ memory_positions[i][a] # population[i][a]
    /\ \E j \in Crows, a \in Axes :
          /\ ParameterBounds[a].integer
          /\ population[j][a] % Res # 0

---------------------------------------------------------------------------
(* C3 *)

\* C3: the best fitness recorded for iteration k + 1 is greater than or equal
\* to the one recorded for iteration k.
C3_BestFitnessNeverDecreases ==
    \A k \in 1..(Len(convergence_history) - 1) :
        Ge(convergence_history[k + 1].best_fitness, convergence_history[k].best_fitness)

\* a second iteration all of whose candidates scored below the global best
C3_Witness ==
    /\ Len(convergence_history) = 2
    /\ best_fitness # NegInf
    /\ \A i \in Crows : Gt(best_fitness, fitness_values[i])

---------------------------------------------------------------------------
(* C4 *)

\* C4: in parallel mode, when the future of candidate collect_idx times out,
\* the candidate's fitness becomes -inf, the memory and the Pareto front stay
\* as they are, and the coordinator moves on to the next candidate of the
\* same iteration.
C4_TimeoutAbsorbed ==
    [][ (pc = "collect" /\ last'.kind = "timeout" /\ last'.i = collect_idx
            /\ futures'[collect_idx] # futures[collect_idx])
        => /\ fitness_values'[collect_idx] = NegInf
           /\ memory_positions' = memory_positions
           /\ memory_fitness' = memory_fitness
           /\ pareto_front' = pareto_front
           /\ pc' = "collect"
           /\ collect_idx' = collect_idx + 1
           /\ iteration' = iteration ]_vars

\* the first candidate timed out in a later iteration, after it had earned a
\* finite fitness, and the second candidate is still to be collected
C4_Witness ==
    /\ pc = "collect"
    /\ iteration >= 1
    /\ last.kind = "timeout"
    /\ memory_fitness[last.i] # NegInf
    /\ fitness_values[last.i] = NegInf
    /\ collect_idx \in Crows

---------------------------------------------------------------------------
(* C5 *)

\* C5: a run with parallel evaluation terminates even if the evaluation unit
\* of a candidate never finishes: until it has returned, the run can take a
\* step.
C5_ParallelRunTerminates ==
    parallel_evaluation => (pc = "done" \/ ENABLED Next)

---------------------------------------------------------------------------
(* C6 *)

\* C6: when the classifier or density evaluation of a candidate raises, the
\* candidate's fitness of the iteration is -inf and it is promoted neither
\* to memory nor to the Pareto front.
C6_RaisedScoresMinusInf ==
    [][ (pc \in {"evaluate", "collect"} /\ collect_idx \in Crows
            /\ collect_idx' = collect_idx + 1
            /\ last'.kind = "result" /\ last'.raised)
        => /\ fitness_values'[collect_idx] = NegInf
           /\ memory_positions' = memory_positions
           /\ memory_fitness' = memory_fitness
           /\ pareto_front' = pareto_front ]_vars

---------------------------------------------------------------------------
(* C7 *)

\* C7: a run returns a result object, and if every evaluation of the run
\* failed or timed out the result has empty best parameters, all-zero
\* objective scores, an empty Pareto front and best fitness -inf.
C7_AllFailedGivesDefaults ==
    pc = "done" =>
        /\ result # None
        /\ ~measured =>
              /\ result[1].best_parameters = None
              /\ result[1].objective_scores = ZeroScores
              /\ result[1].best_fitness = NegInf
              /\ pareto_front = << >>

---------------------------------------------------------------------------
(* C8 *)

\* C8: the Move step of an iteration starts only after every evaluation unit
\* submitted in this iteration or before has finished executing.
C8_MoveAfterUnitsFinished ==
    [][ iteration' = iteration + 1 => Unfinished = 0 ]_vars

---------------------------------------------------------------------------
(* C9 *)

\* the state the candidates share
Shared == << fitness_values, memory_positions, memory_fitness, pareto_front,
             best_fitness, best_position >>

\* C9 as stated: in parallel mode nothing of the shared state is modified
\* before the results of all units of the iteration are collected (the
\* collection of the last unit may be the step that modifies it).
C9_NoMutationBeforeAllCollected ==
    [][ (pc = "collect" /\ Shared' # Shared) => collect_idx >= PopulationSize ]_vars

\* C9 as amended: the shared state is modified by the coordinator only.  The
\* fitness and memory entries of candidate i and the Pareto front are
\* modified only in the step in which the coordinator collects the unit of
\* candidate i (its result or its timeout), the candidates being collected in
\* submission order; the global best is modified only after the units of all
\* candidates have been collected.
C9_MutationByCoordinatorOnly ==
    [][ pc = "collect" =>
          /\ \A i \in Crows :
                ( \/ fitness_values'[i] # fitness_values[i]
                  \/ memory_positions'[i] # memory_positions[i]
                  \/ memory_fitness'[i] # memory_fitness[i] )
                => /\ collect_idx = i
                   /\ collect_idx' = i + 1
                   /\ futures'[i] = "collected"
          /\ pareto_front' # pareto_front
                => /\ collect_idx \in Crows
                   /\ collect_idx' = collect_idx + 1
                   /\ last'.kind = "result"
          /\ (best_fitness' # best_fitness \/ best_position' # best_position)
                => /\ collect_idx = PopulationSize + 1
                   /\ \A i \in Crows : futures[i] = "collected" ]_vars

\* the first candidate's result has been stored while the unit of the second
\* one is still running
C9_Witness ==
    /\ pc = "collect"
    /\ collect_idx = 2
    /\ last.kind = "result"
    /\ fitness_values[1] # NegInf
    /\ futures[2] = "running"

---------------------------------------------------------------------------
(* C10 *)

\* C10: for every window_size >= 1 the replay buffer holds at most
\* 2 * window_size entries after each predict_anomaly call.
C10_BufferBounded ==
    window_size >= 1 => Len(adaptation_buffer) <= 2 * window_size

\* a buffer that a single batch has overfilled and that was cut to the last
\* window_size entries
C10_Witness ==
    /\ window_size >= 1
    /\ MaxBatch > 2 * window_size
    /\ Len(adaptation_buffer) = window_size
    /\ adaptation_buffer[1].timestamp > 2 * window_size

---------------------------------------------------------------------------
(* C11 *)

\* C11: for every window_size >= 0 the replay buffer is the contiguous
\* most-recent suffix of the rows scored, in row order, and it is cut to its
\* most recent window_size entries whenever an append takes it beyond
\* 2 * window_size: it never holds more than 2 * window_size entries, so
\* none at all for window_size = 0.
C11_TrimmedSuffix ==
    /\ \A k \in DOMAIN adaptation_buffer :
          adaptation_buffer[k].timestamp = scored - Len(adaptation_buffer) + k
    /\ Len(adaptation_buffer) <= 2 * window_size

---------------------------------------------------------------------------
(* C12 *)

\* C12: on a fitted model adapt_model makes an adaptation attempt only if
\* (force is set or the buffer holds at least window_size entries) and at
\* least 10 buffered entries are flagged non-anomalous; in every other case
\* it returns adapted = false and does not raise.
C12_AdaptOnlyWhenReady ==
    [][ (returned'.call = "adapt_model" /\ is_fitted) =>
          LET ready ==
                  /\ returned'.force \/ Len(adaptation_buffer) >= window_size
                  /\ Cardinality(NormalSamples(adaptation_buffer)) >= MinNormalSamples
              attempted ==
                  returned'.adapted \/ returned'.reason = "adaptation_error"
          IN  /\ attempted => ready
              /\ ~ready => (~returned'.adapted /\ ~returned'.raised) ]_vars

\* a forced adaptation went through on a buffer shorter than the window
C12_Witness ==
    /\ returned.call = "adapt_model"
    /\ returned.adapted
    /\ returned.force
    /\ window_size = MaxWindow
    /\ scored < window_size

---------------------------------------------------------------------------
(* C13 *)

\* C13: after fit and the scoring of no more than window_size rows in
\* total, adapt_model() without force returns adapted = false.
C13_NoAdaptationUpToWindow ==
    ( /\ returned.call = "adapt_model"
      /\ ~returned.raised
      /\ ~returned.force
      /\ scored <= window_size )
    => ~returned.adapted

---------------------------------------------------------------------------
(* C14 *)

\* C14: a predict_anomaly call leaves the mixture, the scaler and reducer,
\* the calibrated threshold, the baseline statistics and feature importance,
\* the fitted flag and the last-update time as they were, whether it returns
\* or raises, and when it raises the replay buffer is unchanged as well.
C14_ScoringTouchesBufferOnly ==
    [][ returned'.call = "predict_anomaly" =>
          /\ UNCHANGED << gmm_model, scaler, calculated_threshold,
                          baseline_statistics, is_fitted, last_update >>
          /\ returned'.raised => adaptation_buffer' = adaptation_buffer ]_vars

\* a scoring call raised on a fitted model whose buffer holds entries
C14_Witness ==
    /\ returned.call = "predict_anomaly"
    /\ returned.raised
    /\ is_fitted
    /\ CanScore(gmm_model)
    /\ Len(adaptation_buffer) > 0

---------------------------------------------------------------------------
(* C15 *)

\* C15: on a model that has never been fitted successfully, predict_anomaly
\* and adapt_model raise, and the model stays unfitted with an empty replay
\* buffer.
C15_UnfittedCallsRaise ==
    ~is_fitted =>
        /\ adaptation_buffer = << >>
        /\ returned.call \in { "predict_anomaly", "adapt_model" } => returned.raised

\* adapt_model was refused after a fit that failed
C15_Witness ==
    /\ ~is_fitted
    /\ fits > 0
    /\ returned.call = "adapt_model"
    /\ returned.force
    /\ returned.raised

---------------------------------------------------------------------------
(* C16 *)

\* C16: fit on fewer samples than the minimum sample count (the 5 rows of
\* test_fit_with_insufficient_data are fewer) raises, and a model that was
\* unfitted before a fit call that raises is unfitted after it.
C16_FitBelowMinimumRaises ==
    [][ fits' = fits + 1 =>
          /\ returned'.n_samples <= InsufficientRows => returned'.raised
          /\ (returned'.raised /\ ~is_fitted) => ~is_fitted' ]_vars

---------------------------------------------------------------------------
(* C17 *)

\* C17: after a successful fit on an already fitted model nothing recorded
\* before the re-fit remains: the replay buffer holds no entry scored under
\* the previous fit.
C17_RefitClearsBuffer ==
    [][ (fits' = fits + 1 /\ is_fitted /\ ~returned'.raised)
        => adaptation_buffer' = << >> ]_vars

---------------------------------------------------------------------------
(* C18 *)

\* C18: when adapt_model returns adapted = true the replay buffer is empty,
\* the last-update time has been stamped, the threshold has been
\* recalculated from the blended mixture, and the new_threshold returned is
\* the calibrated threshold of the model.
C18_AdaptedPostcondition ==
    [][ (returned'.call = "adapt_model" /\ returned'.adapted) =>
          /\ adaptation_buffer' = << >>
          /\ last_update' > last_update
          /\ gmm_model' = Blended(gmm_model)
          /\ returned'.new_threshold = calculated_threshold' ]_vars

\* an unforced adaptation on a full window went through
C18_Witness ==
    /\ returned.call = "adapt_model"
    /\ returned.adapted
    /\ ~returned.force
    /\ window_size = MaxWindow - 1
    /\ adaptation_buffer = << >>
    /\ last_update = 2

---------------------------------------------------------------------------
(* C19 *)

\* the score the claim gives an objective: the reported one, 0 when absent
ClaimedScore(objective, raw) ==
    IF objective.name \in DOMAIN raw THEN raw[objective.name] ELSE 0

\* 1 - score for a minimize objective, then (score - lo) / (hi - lo) clamped
\* to [0, 1] when a target range is set; as a fraction <<num, den>>
ClaimedAdjusted(objective, raw) ==
    LET s   == ClaimedScore(objective, raw)
        inv == IF objective.minimize THEN ScoreMax - s ELSE s
    IN  IF objective.target_range = None THEN << inv, ScoreMax >>
        ELSE LET lo == objective.target_range[1]
                 hi == objective.target_range[2]
             IN  IF inv <= lo THEN << 0, 1 >>
                 ELSE IF inv >= hi THEN << 1, 1 >>
                 ELSE << inv - lo, hi - lo >>

\* the sums over the first k objectives: <<num, den>> of the weighted
\* adjusted scores and the total weight
RECURSIVE ClaimedTotals(_, _)
ClaimedTotals(raw, k) ==
    IF k = 0 THEN << 0, 1, 0 >>
    ELSE LET before == ClaimedTotals(raw, k - 1)
             a      == ClaimedAdjusted(objectives[k], raw)
         IN  << before[1] * a[2] + objectives[k].weight * a[1] * before[2],
                before[2] * a[2],
                before[3] + objectives[k].weight >>

\* C19: the aggregated fitness of an evaluated candidate is
\* sum(weight * adjusted_score) / sum(weight) over all configured
\* objectives, an objective the evaluators did not report counting as score
\* 0 with its weight included, and it is 0 when the total weight is 0.
C19_WeightedFitness ==
    \A e \in DOMAIN evaluated :
        LET t == ClaimedTotals(evaluated[e].raw, Len(objectives))
        IN  evaluated[e].fitness =
                IF t[3] = 0 THEN Rat(0, 1) ELSE Rat(t[1], t[2] * t[3])

\* a candidate whose density metric was not reported, under a minimised
\* density objective with a target range that clips, both weights positive
C19_Witness ==
    /\ objectives[1].weight > 0
    /\ objectives[2].weight > 0
    /\ objectives[2].minimize
    /\ objectives[2].target_range = << -1, 0 >>
    /\ \E e \in DOMAIN evaluated :
          /\ "sgm_detection_rate" \notin DOMAIN evaluated[e].raw
          /\ "accuracy" \in DOMAIN evaluated[e].raw
          /\ evaluated[e].raw["accuracy"] = ScoreMax

---------------------------------------------------------------------------
(* C20 *)

\* A is not worse than B on every objective and strictly better on one,
\* respecting each minimize flag
ClaimedDominates(a, b) ==
    /\ \A k \in DOMAIN objectives :
          IF objectives[k].minimize THEN a[objectives[k].name] <= b[objectives[k].name]
          ELSE a[objectives[k].name] >= b[objectives[k].name]
    /\ \E k \in DOMAIN objectives :
          IF objectives[k].minimize THEN a[objectives[k].name] < b[objectives[k].name]
          ELSE a[objectives[k].name] > b[objectives[k].name]

\* C20: over score vectors on the same objective set, A dominates B exactly
\* when A is not worse on any objective and strictly better on one, and the
\* relation is irreflexive, asymmetric and transitive.
C20_DominanceIsStrictOrder ==
    \A i, j, k \in DOMAIN evaluated :
        LET a == evaluated[i].objective_scores
            b == evaluated[j].objective_scores
            c == evaluated[k].objective_scores
        IN  /\ Dominates(a, b) <=> ClaimedDominates(a, b)
            /\ ~Dominates(a, a)
            /\ Dominates(a, b) => ~Dominates(b, a)
            /\ (Dominates(a, b) /\ Dominates(b, c)) => Dominates(a, c)

\* three candidates in a chain of dominance, one objective maximised and the
\* other minimised
C20_Witness ==
    /\ Len(evaluated) = 3
    /\ objectives[1].minimize # objectives[2].minimize
    /\ Dominates(evaluated[1].objective_scores, evaluated[2].objective_scores)
    /\ Dominates(evaluated[2].objective_scores, evaluated[3].objective_scores)
    /\ evaluated[1].objective_scores["accuracy"]
          # evaluated[3].objective_scores["accuracy"]
    /\ evaluated[1].objective_scores["sgm_detection_rate"]
          # evaluated[3].objective_scores["sgm_detection_rate"]

---------------------------------------------------------------------------
(* C21 *)

\* how many members of a front are the solution x
Count(front, x) == Cardinality({ k \in DOMAIN front : front[k] = x })

\* the solution handed to the last call of _update_pareto_front
Inserted(e) ==
    [parameters |-> SomeParams, objectives |-> e.objective_scores,
     fitness |-> e.fitness]

\* C21: an update leaves at most 50 members; the new solution is inserted
\* only if no member dominates it; its insertion removes every member it
\* dominates; and when the front would exceed 50 members, the members removed
\* are ones of the lowest aggregated fitness.
C21_FrontUpdate ==
    [][ evaluated' # << >> =>
          LET solution == Inserted(evaluated'[1])
              is_dominated ==
                  \E k \in DOMAIN pareto_front :
                      Dominates(pareto_front[k].objectives, solution.objectives)
              \* the members an insertion leaves, before the cut to capacity
              Kept(x) ==
                  (IF Dominates(solution.objectives, x.objectives) THEN 0
                   ELSE Count(pareto_front, x))
                      + (IF x = solution THEN 1 ELSE 0)
              Solutions == { pareto_front[k] : k \in DOMAIN pareto_front }
                               \cup { pareto_front'[k] : k \in DOMAIN pareto_front' }
                               \cup { solution }
              size == Len(SelectSeq(pareto_front,
                            LAMBDA m : ~Dominates(solution.objectives, m.objectives))) + 1
          IN  /\ Len(pareto_front') <= ParetoCap
              /\ is_dominated => pareto_front' = pareto_front
              /\ ~is_dominated =>
                    /\ Len(pareto_front') = Min(size, ParetoCap)
                    /\ \A x \in Solutions :
                          /\ Count(pareto_front', x) <= Kept(x)
                          /\ Count(pareto_front', x) < Kept(x) =>
                                /\ size > ParetoCap
                                /\ \A k \in DOMAIN pareto_front' :
                                      Ge(pareto_front'[k].fitness, x.fitness)
      ]_vars

\* a full front that the last solution is not a member of although no member
\* dominates it: it was inserted, the front exceeded its capacity, and it was
\* removed as the member of the lowest fitness
C21_Witness ==
    /\ Len(pareto_front) = ParetoCap
    /\ evaluated # << >>
    /\ \A k \in DOMAIN pareto_front :
          /\ ~Dominates(pareto_front[k].objectives, evaluated[1].objective_scores)
          /\ pareto_front[k].objectives # evaluated[1].objective_scores
          /\ Gt(pareto_front[k].fitness, evaluated[1].fitness)

---------------------------------------------------------------------------
(* C22 *)

\* the floats x and y are equal
SameValue(x, y) == x.num * y.den = y.num * x.den

\* max(floor, start * (1 - c * k / N)) for c = cn / cd, as a float
Scheduled(start, cn, cd, k, floor) ==
    LET v == [num |-> start.num * (cd * MaxIterations - cn * k),
              den |-> start.den * cd * MaxIterations]
    IN  IF Gt(floor, v) THEN floor ELSE v

\* C22: with adaptive scheduling on, after the update of iteration k of a run
\* of N iterations awareness_probability is max(0.05, awareness0 * (1 - 0.5 k/N))
\* and flight_length is max(1.0, flight0 * (1 - 0.3 k/N)), awareness0 and
\* flight0 being the values configured at construction; with adaptive
\* scheduling off both keep their configured values for the whole run.
C22_AdaptiveSchedule ==
    [][ /\ iteration' = iteration + 1 =>
              IF adaptive_parameters
              THEN /\ SameValue(awareness_probability',
                                Scheduled(initial_awareness_probability, 1, 2,
                                          iteration, [num |-> 1, den |-> 20]))
                   /\ SameValue(flight_length',
                                Scheduled(initial_flight_length, 3, 10,
                                          iteration, [num |-> 1, den |-> 1]))
              ELSE /\ SameValue(awareness_probability', initial_awareness_probability)
                   /\ SameValue(flight_length', initial_flight_length)
        /\ ~adaptive_parameters =>
              /\ SameValue(awareness_probability', initial_awareness_probability)
              /\ SameValue(flight_length', initial_flight_length)
      ]_vars

\* a run that has made the update of iteration 1: the awareness probability
\* is on its floor and the flight length, from 2.0, is at 1.7
C22_Witness ==
    /\ adaptive_parameters
    /\ iteration = 2
    /\ initial_awareness_probability = Rat(1, 25)
    /\ awareness_probability = Rat(1, 20)
    /\ initial_flight_length = Rat(2, 1)
    /\ flight_length = Rat(17, 10)

---------------------------------------------------------------------------
(* C23 *)

\* C23: for every completed run, a run on an instance that has already
\* completed a run included, the convergence log of the run has exactly
\* max_iterations entries with the iteration indices 1..max_iterations in
\* increasing order, and iterations_completed equals max_iterations.
C23_ConvergenceLogOfRun ==
    pc = "done" =>
        /\ Len(convergence_history) = MaxIterations
        /\ \A k \in DOMAIN convergence_history : convergence_history[k].iteration = k
        /\ result[1].iterations_completed = MaxIterations

---------------------------------------------------------------------------
(* C24 *)

---------------------------------------------------------------------------
(* C25 *)

\* C25: in the single-objective search an evaluation that raises is scored
\* -inf, does not replace the candidate's memory, does not become the global
\* best and does not abort the run; if every evaluation failed the run
\* returns the default parameter set.
C25_RaisedEvaluationAbsorbed ==
    [][ /\ (pc = "csa_evaluate" /\ collect_idx' = collect_idx + 1 /\ last'.raised)
            => /\ fitness_values'[collect_idx] = NegInf
               /\ memory_positions' = memory_positions
               /\ memory_fitness' = memory_fitness
               /\ best_fitness' = best_fitness
               /\ best_position' = best_position
               /\ pc' = "csa_evaluate"
        /\ (pc' = "done" /\ ~measured') => result' = << DefaultParameters >>
        /\ (pc' = "done" /\ measured') => result' # << DefaultParameters >>
      ]_vars

\* a run that went through all its iterations with every evaluation raising
\* and returned the default parameters
C25_Witness ==
    /\ pc = "done"
    /\ ~measured
    /\ Len(convergence_history) = MaxIterations
    /\ \A i \in Crows : fitness_values[i] = NegInf /\ memory_fitness[i] = NegInf
    /\ result = << DefaultParameters >>

---------------------------------------------------------------------------
(* C26 *)

\* C26: two predict_anomaly calls may run at once on a fitted model: however
\* they interleave, once both have returned every row they scored is in the
\* replay buffer unless a trim evicted it as one of the oldest entries (the
\* buffer holds the rows appended last, without a gap), and the buffer holds
\* at most 2 * window_size entries.
C26_ConcurrentScoringKeepsRows ==
    (DOMAIN scorers = Threads /\ ActiveScorers = {}) =>
        /\ Len(adaptation_buffer) <= 2 * window_size
        /\ \A k \in DOMAIN adaptation_buffer :
              adaptation_buffer[k].timestamp = scored - Len(adaptation_buffer) + k

---------------------------------------------------------------------------
(* C27 *)

\* C27: the stability score of an evaluation that did not fail is
\* 1 / (1 + |t_eval - t_ref|) for the threshold t_eval of the evaluation model
\* and the threshold t_ref of the fitted reference model, hence below 1 when
\* the two thresholds differ.
C27_StabilityAgainstReference ==
    \A k \in DOMAIN evaluated :
        (~evaluated[k].failed /\ evaluated[k].ref_fitted) =>
            /\ evaluated[k].sgm_stability =
                   Rat(1, 1 + Distance(evaluated[k].t_eval, evaluated[k].t_ref))
            /\ evaluated[k].t_eval # evaluated[k].t_ref =>
                   Gt(Rat(1, 1), evaluated[k].sgm_stability)

---------------------------------------------------------------------------
(* C28 *)

\* C28: a call of adapt_model that returns adapted = false, for whatever
\* reason, an error inside the adaptation attempt included, leaves the
\* mixture parameters, the threshold, the replay buffer and the time of the
\* last update as they were before the call.
C28_NotAdaptedLeavesModel ==
    [][ (returned'.call = "adapt_model" /\ ~returned'.raised /\ ~returned'.adapted) =>
            UNCHANGED << gmm_model, calculated_threshold, adaptation_buffer,
                         last_update >> ]_vars

---------------------------------------------------------------------------
(* C29 *)

\* C29: whatever the population size (1 or more), the move step comes to its
\* end, and then every crow i has followed a crow j other than i.
C29_MoveTerminates ==
    <>( /\ follow.pc = "moved"
        /\ \A i \in 1..follow.size : follow.picked[i] # i )

---------------------------------------------------------------------------
(* C30 *)

\* C30: a run begins with every remembered fitness at -inf and the
\* remembered positions equal to the initial population.  During the run the
\* remembered fitness of a crow never decreases; it changes only to the
\* fitness just measured for the crow, which is strictly greater, and the
\* remembered position then becomes the position that was evaluated; the
\* remembered position changes at no other time.
C30_MemoryOnlyImproves ==
    [][ IF runs' # runs
        THEN /\ memory_positions' = population'
             /\ \A i \in Crows : memory_fitness'[i] = NegInf
        ELSE pc # "idle" =>
               \A i \in Crows :
                  IF memory_fitness'[i] = memory_fitness[i]
                  THEN memory_positions'[i] = memory_positions[i]
                  ELSE /\ Gt(memory_fitness'[i], memory_fitness[i])
                       /\ last'.kind = "result"
                       /\ last'.i = i
                       /\ memory_fitness'[i] = fitness_values'[i]
                       /\ memory_positions'[i] = population[i] ]_vars

\* in a later iteration a crow has been evaluated below its remembered
\* fitness, at a position other than the remembered one
C30_Witness ==
    /\ pc # "idle"
    /\ iteration >= 1
    /\ \E i \in Crows :
          /\ last.kind = "result"
          /\ last.i = i
          /\ memory_fitness[i] # NegInf
          /\ Gt(memory_fitness[i], fitness_values[i])
          /\ memory_positions[i] # population[i]

---------------------------------------------------------------------------
(* C31 *)

\* C31: when the global best of an iteration has been updated, in the first
\* run of an optimizer and in every later one, best_fitness is the greatest
\* remembered fitness of the population, and if it is finite best_position is
\* the remembered position of a crow whose remembered fitness it is.
C31_GlobalBestIsBestMemory ==
    [][ iteration' = iteration + 1 =>
          /\ \A i \in Crows : Ge(best_fitness', memory_fitness'[i])
          /\ \E i \in Crows : best_fitness' = memory_fitness'[i]
          /\ best_fitness' # NegInf =>
                \E i \in Crows : /\ best_fitness' = memory_fitness'[i]
                                 /\ best_position' = memory_positions'[i] ]_vars

---------------------------------------------------------------------------
(* C32 *)

\* C32: while the front holds fewer than 50 members, every solution
\* evaluated without an error so far in the run is a member of the front or
\* dominated by a member.  In steps: the solution just evaluated is a member
\* or dominated by one, and a score vector that was a member or dominated by
\* one remains so when the front changes.
C32_EvaluatedIsCovered ==
    [][ LET Covered(front, v) ==
                \E k \in DOMAIN front :
                    \/ front[k].objectives = v
                    \/ Dominates(front[k].objectives, v)
        IN  Len(pareto_front') < ParetoCap =>
              /\ (collect_idx' = collect_idx + 1 /\ last'.kind = "result"
                     /\ ~last'.raised)
                    => Covered(pareto_front', last'.scores)
              /\ \A v \in ScoreVectors :
                    Covered(pareto_front, v) => Covered(pareto_front', v) ]_vars

---------------------------------------------------------------------------
(* C33 *)

\* C33: whatever the threshold (positive, zero or negative), a scored row is
\* graded "normal" exactly if it is not flagged as an anomaly.
C33_NormalIffNotFlagged ==
    \A k \in DOMAIN evaluated :
        (evaluated[k].severity = "normal") <=> ~evaluated[k].is_anomaly

---------------------------------------------------------------------------
(* C34 *)

\* C34: with the same outcome for each evaluation and no timeout, an
\* iteration of a parallel run ends with the fitness values, the memory, the
\* Pareto front (its order included) and the global best that the same
\* iteration of the sequential run ended with, in whatever order the futures
\* complete.
C34_ParallelAsSequential ==
    ( /\ reference # None
      /\ parallel_evaluation
      /\ pc \in {"evaluate", "finalize"}
      /\ collect_idx = 1
      /\ iteration = reference[1].iteration )
    => /\ fitness_values = reference[1].fitness_values
       /\ memory_positions = reference[1].memory_positions
       /\ memory_fitness = reference[1].memory_fitness
       /\ pareto_front = reference[1].pareto_front
       /\ best_fitness = reference[1].best_fitness
       /\ best_position = reference[1].best_position

\* the last iteration of a parallel run has ended, the sequential run having
\* been stopped after the same iteration, with two members in the front and
\* candidates that remember different fitness values
C34_Witness ==
    /\ reference # None
    /\ parallel_evaluation
    /\ pc = "finalize"
    /\ reference[1].iteration = MaxIterations
    /\ Len(pareto_front) >= 2
    /\ memory_fitness[1] # memory_fitness[2]

---------------------------------------------------------------------------
(* C35 *)

\* C35: when a work item whose future has timed out returns its result, in
\* the iteration that submitted it or in a later one, the fitness values, the
\* memory, the Pareto front and the global best stay as they are.
C35_LateResultDiscarded ==
    [][ abandoned'.running < abandoned.running =>
          UNCHANGED << fitness_values, memory_positions, memory_fitness,
                       pareto_front, best_fitness, best_position >> ]_vars

\* a future of an earlier iteration timed out, every abandoned work item has
\* returned since, and the coordinator is collecting a later iteration
C35_Witness ==
    /\ pc = "collect"
    /\ iteration >= 1
    /\ timed_out
    /\ last.kind # "timeout"
    /\ abandoned = [pending |-> 0, running |-> 0, hung |-> 0]

---------------------------------------------------------------------------
(* C36 *)

\* C36: a work item that has timed out holds back no other candidate: the
\* future of a candidate times out only if the candidate's own work item is
\* being executed and takes too long, never while the work item is still
\* waiting for a worker, however many work items timed out before.
C36_TimeoutOnlyOwnUnit ==
    [][ (collect_idx \in Crows /\ collect_idx' = collect_idx + 1
           /\ last'.kind = "timeout")
        => futures[collect_idx] # "pending" ]_vars

---------------------------------------------------------------------------
(* C37 *)

\* C37: in a sequence of calls on one optimizer with parallel evaluation no
\* work item is submitted to an executor that has been shut down: no call
\* ends by raising at the submission of its population.
C37_NoSubmitAfterShutdown ==
    parallel_evaluation => pc # "failed"

---------------------------------------------------------------------------
(* C38 *)

\* C38: with adaptive scheduling on, whatever the configured starting
\* values, awareness_probability and flight_length after an iteration of a
\* run are not greater than they were before it.
C38_ScheduleNeverIncreases ==
    [][ (adaptive_parameters /\ iteration' = iteration + 1) =>
          /\ Ge(awareness_probability, awareness_probability')
          /\ Ge(flight_length, flight_length') ]_vars

---------------------------------------------------------------------------
(* C39 *)

\* C39: a step of a work item (it finishes, in time or after its future
\* timed out) writes neither the fitness arrays, the memory, the Pareto
\* front, the global best nor the population; these change in steps of the
\* coordinator only, and the analyzer passed to the run changes in no step.
C39_UnitsWriteNothing ==
    [][ /\ ( \/ \E i \in Crows : futures[i] = "running" /\ futures'[i] = "done"
             \/ abandoned'.running < abandoned.running )
            => UNCHANGED << fitness_values, memory_positions, memory_fitness,
                            pareto_front, best_fitness, best_position,
                            population, pc, collect_idx >>
        /\ UNCHANGED sgmVars ]_vars

\* a later iteration in which the work item of the second candidate has
\* finished before the coordinator has collected the first
C39_Witness ==
    /\ pc = "collect"
    /\ iteration >= 1
    /\ collect_idx = 1
    /\ futures[2] = "done"
    /\ futures[1] = "running"

---------------------------------------------------------------------------
(* C40 *)

\* C40: a call of fit that raises on a fitted analyzer leaves the scaler,
\* the mixture model, the threshold and the fitted flag as they were, and
\* the analyzer can still score with its previous fit.
C40_FailedFitKeepsModel ==
    [][ (is_fitted /\ returned'.call = "fit" /\ returned'.raised) =>
          /\ UNCHANGED << scaler, gmm_model, calculated_threshold, is_fitted >>
          /\ CanScore(gmm_model') ]_vars

=============================================================================
